---- MODULE Spec2Model ----
(***************************************************************************)
(* Model of the neo4j-cdc-sync repository.                                 *)
(*                                                                         *)
(* Part I: the connector deployment script                                 *)
(* (terraform/scripts/configure_connectors.py): main() waits for the       *)
(* Kafka Connect REST API, checks the partition count of the relay topic,  *)
(* PUTs the two connector configurations, polls their status, restarts the *)
(* source task and polls the source connector again.  The control plane    *)
(* and the relay are the environment: every response they can give is a    *)
(* nondeterministic choice.                                                *)
(*                                                                         *)
(* Part II: the heartbeat agent (heartbeat/heartbeat.py) together with the *)
(* programs that clear the source database it writes to.                   *)
(*                                                                         *)
(* Part III: the live test (python/test_live_cdc.py) with its warm-up and   *)
(* polling functions, and the replication pipeline that carries the        *)
(* changes of the source database to the target.                           *)
(*                                                                         *)
(* Part IV: the convergence check (python/verify_cdc.py).                  *)
(*                                                                         *)
(* Part V: the bulk test (python/test_bulk_cdc.py).                        *)
(*                                                                         *)
(* Each part has its own variables and its own specification; under the    *)
(* specification of one part the variables of the others do not change.    *)
(***************************************************************************)
EXTENDS Integers, Sequences, FiniteSets, TLC

VARIABLES
  env,          \* os.environ as main() reads it
  pc,           \* main()'s position: "start", a step of MainSteps, or "done"
  elapsed,      \* time.time() - start of the polling loop being executed
  exitCode,     \* the value main() returned (-1: still running)
  raised,       \* the exception that reached main()'s except clauses
  stderr,       \* the kinds of message written to sys.stderr in this run
  connectors,   \* control plane: connector name -> configuration it holds
  run,          \* the number of this run of the script
  \* history of the run, recorded for the properties
  lastEv,       \* the latest HTTP exchange of the run
  puts,         \* the connector names PUT in this run, in order
  lastPoll,     \* per connector, the latest status response of the run
  restarts,     \* restart requests POSTed in this run
  pubPolledAfterRestart, \* a publisher status poll followed the latest restart
  restartPending, \* the broker accepted a restart of the publisher task and has not carried it out
  staleReturn,  \* the re-verification returned on a status read while the restart was pending
  verified,     \* the verify_connector calls of this run that returned
  waitReturned, \* wait_for_connect returned
  guard,        \* what verify_topic_partitions was given and did in this run
  refusals,     \* wait_for_connect polls in a row that raised (up to MaxRefusals)
  firstRun      \* the control plane's connectors when the first run ended

deployVars ==
  << env, pc, elapsed, exitCode, raised, stderr, connectors, run, lastEv, puts,
     lastPoll, restarts, pubPolledAfterRestart, restartPending, staleReturn, verified, waitReturned, guard,
     refusals, firstRun >>

\* Part II: heartbeat.py
VARIABLES
  hbEnv,        \* os.environ as heartbeat.main() reads it
  hbPc,         \* main()'s position
  hbExit,       \* the exit status of the process (-1: still running)
  SHUTDOWN,     \* the module's global flag
  consecutive_failures,
  sleepLeft,    \* iterations left in `for _ in range(interval)`
  srcSeq,       \* seq of the _Heartbeat node on the source (0: no such node)
  \* history, recorded for the properties
  hbNet,        \* the agent has made a network call
  streak,       \* send_heartbeat calls that returned False since the last True
  reconnects,   \* drivers re-created since the last send_heartbeat that returned True
  prevSeq,      \* seq stored by the successful heartbeat before the latest one
  lastSeq,      \* seq stored by the latest successful heartbeat (0: none yet)
  afterStop,    \* heartbeat attempts and sleeps begun after SHUTDOWN was set
  driverOpen,   \* the driver held in `driver` was created and close() not yet called on it
  leaked,       \* a driver was dropped without close() having been called on it
  hbEntered,    \* main() has reached its tick loop
  lastBeat,     \* what the latest send_heartbeat call met ("": no call yet)
  hbRaised      \* an exception is propagating out of the tick loop

hbVars ==
  << hbEnv, hbPc, hbExit, SHUTDOWN, consecutive_failures, sleepLeft, srcSeq, hbNet,
     streak, reconnects, prevSeq, lastSeq, afterStop, driverOpen, leaked, hbEntered,
     lastBeat, hbRaised >>

\* Part III: test_live_cdc.py
VARIABLES
  liveEnv,      \* os.environ as test_live_cdc.main() reads it
  livePc,       \* main()'s position
  liveExit,     \* the exit status of the process (-1: still running)
  liveClients,  \* the Neo4jClient objects constructed
  liveNet,      \* the kinds of database operation sent over the network
  liveNow,      \* time.time() - start in wait_for_condition, in poll intervals
  liveWait,     \* what wait_for_condition returned: (success, elapsed)
  liveTest,     \* the step main() is at: "cleanup", "create", "update", "delete"
  \* history, recorded for the properties
  liveEval,     \* the latest evaluation of check_fn in the running wait_for_condition
  liveArrived,  \* during the running wait the target held what check_fn looks for
                \* at a moment before the deadline
  liveReadFailed, \* a read of check_fn raised during the running wait
  livePassed    \* the tests whose wait_for_condition returned True

liveVars ==
  << liveEnv, livePc, liveExit, liveClients, liveNet, liveNow, liveWait, liveTest,
     liveEval, liveArrived, liveReadFailed, livePassed >>

\* the two databases as the live test and the warm-up see them, and the
\* replication pipeline between them
VARIABLES
  srcPerson,    \* name of Person {id: 9999} on the source ("": no such node)
  tgtPerson,    \* the same on the target
  srcMarker,    \* the _CDCWarmUp node with this run's wid on the source ("": none)
  tgtMarker,    \* the same on the target
  pipe          \* change events captured on the source, not yet applied to the target

dbVars == << srcPerson, tgtPerson, srcMarker, tgtMarker, pipe >>

\* warm_up_pipeline (test_live_cdc.py), called by the live test and the bulk test
VARIABLES
  wuPc,         \* position: "idle", "create", "poll", "delete", "returned", "raised"
  wuNow,        \* time.time() - start, in half seconds
  wuSuccess,    \* the local `success`, which is the value returned
  \* history, recorded for the properties
  wuSeen,       \* a read of check_warmup returned the marker
  wuDeleteIssued, \* the delete of the marker has been sent to the source
  wuElapsed     \* `elapsed` when the loop was left

wuVars == << wuPc, wuNow, wuSuccess, wuSeen, wuDeleteIssued, wuElapsed >>

\* wait_for_condition (test_live_cdc.py) called with any timeout and interval
VARIABLES
  wfcPc,        \* position: "off", "call", "loop", "returned"
  wfcTimeout,   \* timeout_seconds, in poll-interval units
  wfcInterval,  \* poll_interval_seconds, in the same units
  wfcNow,       \* time.time() - start
  wfcRet,       \* the value returned: (success, elapsed)
  \* history, recorded for the properties
  wfcEvals      \* the calls of check_fn so far: result, and `elapsed` at the call

wfcVars == << wfcPc, wfcTimeout, wfcInterval, wfcNow, wfcRet, wfcEvals >>

\* Part IV: verify_cdc.py
VARIABLES
  vfEnv,        \* os.environ as verify_cdc.main() reads it
  vfPc,         \* main()'s position
  vfExit,       \* the exit status of the process (-1: still running)
  vfObs,        \* what compare_databases read from the two databases
  vfMatched     \* what compare_databases returned

vfVars == << vfEnv, vfPc, vfExit, vfObs, vfMatched >>

\* Part V: test_bulk_cdc.py
VARIABLES
  bulkEnv,      \* os.environ as test_bulk_cdc.main() reads it
  bulkPc,       \* main()'s position
  bulkExit,     \* the exit status of the process (-1: still running)
  bulkClients,  \* the Neo4jClient objects open
  bulkNow,      \* time.time() - start in wait_for_propagation, in poll intervals
  bulkCounts,   \* the `counts` wait_for_propagation returned
  bulkRet,      \* what wait_for_propagation returned: (success, elapsed)
  bulkReport,   \* the differences main() printed after a timeout
  \* history, recorded for the properties
  bulkConverged \* some check_counts() of this wait ran on databases with equal
                \* node counts, relationship counts and per-label counts
                \* (SourceEvent aside)

bulkVars ==
  << bulkEnv, bulkPc, bulkExit, bulkClients, bulkNow, bulkCounts, bulkRet, bulkReport,
     bulkConverged >>

\* Part VI: the reads of one convergence check (compare_databases,
\* check_counts) while the endpoints are written to
VARIABLES
  snapPlan,     \* the reads of the check, in the order of the code
  snapPos,      \* the index in snapPlan of the next read
  snapDb,       \* the graph each endpoint holds now
  snapObs,      \* what the reads made so far returned
  snapWrites,   \* the writes applied to the endpoints since the check began
  \* history, recorded for the properties
  snapSeen      \* per endpoint, the graphs it has held since the check began

snapVars == << snapPlan, snapPos, snapDb, snapObs, snapWrites, snapSeen >>

\* Part VII: wait_for_cdc_ready (utils/cdc_utils.py)
VARIABLES
  cdcPc,        \* position: "off", "loop", "returned", "raised"
  cdcTimeout,   \* timeout_seconds
  cdcI,         \* the loop variable i of the next attempt
  cdcRet,       \* the value returned, or the exception raised
  \* history, recorded for the properties
  cdcSlept,     \* seconds spent in time.sleep(1)
  cdcLast       \* what the latest call of db.cdc.current() did

cdcVars == << cdcPc, cdcTimeout, cdcI, cdcRet, cdcSlept, cdcLast >>

\* Part VIII: the demo generator (generators/social_network.py)
VARIABLES
  genPc,        \* main()'s position inside the with block
  genExit,      \* the exit status of the process (-1: still running)
  genGraph,     \* the source graph: Company ids, Person ids, WORKS_AT and KNOWS pairs
  genStats      \* node_count and rel_count as read for the summary table

genVars == << genPc, genExit, genGraph, genStats >>

\* Part IX: the token helper (terraform/scripts/get_aura_token.py)
VARIABLES
  tokPc,        \* main()'s position
  tokExit,      \* the exit status of the process (-1: still running)
  tokEnv,       \* whether the environment gives a client id and a client secret
  tokCache,     \* the content of CACHE_FILE
  tokNow,       \* time.time(), in seconds
  tokToken,     \* the local `token` of main() ("": None)
  tokOut,       \* the token printed to stdout ("": nothing printed)
  \* history, recorded for the properties
  tokCache0,    \* the content of CACHE_FILE when the helper was started
  tokResp,      \* what the token request did ("none": no request made)
  tokStored     \* cache_token wrote the file

tokVars ==
  << tokPc, tokExit, tokEnv, tokCache, tokNow, tokToken, tokOut, tokCache0, tokResp,
     tokStored >>

\* the variables of the parts after Part V
moreVars == << snapVars, cdcVars, genVars, tokVars >>

vars ==
  << deployVars, hbVars, liveVars, dbVars, wuVars, wfcVars, vfVars, bulkVars, moreVars >>

(***************************************************************************)
(* Bounds of the model.                                                    *)
(***************************************************************************)
\* number of times the script is run against the same control plane
MaxRuns == 2
\* largest partition count the relay reports for the topic
MaxPartitions == 3
\* wait_for_connect polls in a row that raised are counted up to this number
MaxRefusals == 3
\* largest HEARTBEAT_INTERVAL (seconds) the agent is started with
MaxInterval == 2
\* longest run of failed heartbeats in a row
MaxStreak == 20
\* largest seq the source's _Heartbeat node reaches
MaxSeq == 3
\* longest time a read of the target takes, in poll intervals
MaxReadTime == 3

(***************************************************************************)
(* Program constants.                                                      *)
(***************************************************************************)
\* wait_for_connect(url, timeout=180)
WaitTimeout == 180
\* verify_connector(url, name, timeout=60)
VerifyTimeout == 60
\* time.sleep(5) in both polling loops
SleepSecs == 5
\* requests.get(..., timeout=10): a request answers at once or runs to its timeout
ReqTimeout == 10
\* verify_topic_partitions(..., expected_partitions=1)
ExpectedPartitions == 1
\* heartbeat.main(): max_failures = 10
max_failures == 10
\* test_live_cdc.main(): wait_for_condition(check_cleanup, timeout_seconds=10)
CleanupTimeoutSecs == 10
\* wait_for_condition(..., poll_interval_seconds=0.5): poll intervals in a second
PollsPerSecond == 2
\* test_live_cdc.py: PROPAGATION_TIMEOUT = 90
LivePropagationTimeout == 90
\* warm_up_pipeline: if elapsed >= 180: break
WarmUpTimeoutSecs == 180
\* warm_up_pipeline: time.sleep(1)
WarmUpSleepSecs == 1
\* test_bulk_cdc.py: EXPECTED_NODES = 110
EXPECTED_NODES == 110
\* test_bulk_cdc.py: EXPECTED_RELS = 445
EXPECTED_RELS == 445
\* test_bulk_cdc.py: PROPAGATION_TIMEOUT = 180
PROPAGATION_TIMEOUT == 180
\* wait_for_propagation: poll_interval = 10
poll_interval == 10
\* the source holds, when the generator starts, Company nodes with ids up to
\* MaxLeftover and Person nodes with ids up to MaxLeftover and from 101 to
\* 100 + MaxLeftover
MaxLeftover == 2
\* UNWIND range(1, 10): the Company ids
NumCompanies == 10
\* UNWIND range(1, 100): the Person ids
NumPeople == 100
\* p1.id < 50 in the KNOWS statement
KnowsBelow == 50
\* TOKEN_LIFETIME = 24 * 60 * 60, in seconds
TOKEN_LIFETIME == 86400
\* the cached timestamps are up to MaxAgeSkew seconds around the lifetime old
MaxAgeSkew == 1
\* largest timeout_seconds wait_for_cdc_ready is called with
MaxCdcTimeout == 5
\* most writes applied to the endpoints while one convergence check reads them
MaxWrites == 2
\* most Person nodes, and most relationships, an endpoint holds when the check begins
MaxGraph == 1
\* most nodes a database is short of the expected count
MaxMissing == 2
\* most relationships a database is short of the expected count
MaxMissingRels == 1
\* longest the four reads of check_counts take together, in poll intervals
MaxBulkRead == 1
\* most nodes a database holds beyond the expected count
MaxExtra == 1
\* largest node count and relationship count verify_cdc reads
MaxCount == 1
\* largest number of nodes with one label verify_cdc reads
MaxLabelCount == 2
\* largest timeout_seconds wait_for_condition is called with on its own
MaxTimeout == 3
\* largest poll_interval_seconds wait_for_condition is called with on its own
MaxPollInterval == 2

Publisher == "neo4j-master-publisher"
Consumer == "neo4j-subscriber-consumer"
Names == {Publisher, Consumer}
Topic == "cdc-all"

ReqDurations == {0, ReqTimeout}

(***************************************************************************)
(* Environment variables read by main().  "" is an unset variable.         *)
(***************************************************************************)
EnvValues ==
  [ CONNECT_URL : {"", "http://connect:8083"},
    MASTER_NEO4J_URI : {"", "neo4j+s://master"},
    MASTER_NEO4J_PASSWORD : {"", "mpw"},
    SUBSCRIBER_NEO4J_URI : {"", "neo4j+s://subscriber"},
    SUBSCRIBER_NEO4J_PASSWORD : {"", "spw"},
    EVENT_HUBS_FQDN : {"", "ns.servicebus.windows.net"},
    EVENT_HUBS_CONNECTION_STRING : {"", "Endpoint=sb://ns"} ]

\* main(): the list of required variables that are not set
Missing(e) ==
  { v \in {"CONNECT_URL", "MASTER_NEO4J_URI", "MASTER_NEO4J_PASSWORD",
           "SUBSCRIBER_NEO4J_URI", "SUBSCRIBER_NEO4J_PASSWORD"} : e[v] = "" }

\* main(): f"{os.environ.get('EVENT_HUBS_FQDN', 'unknown')}:9093"
BootstrapServers(e) ==
  IF e.EVENT_HUBS_FQDN = "" THEN "unknown:9093" ELSE "ns.servicebus.windows.net:9093"

\* a test of the bootstrap address alone
GuardEnabledAddressOnly(e) == BootstrapServers(e) # "unknown:9093"

\* main(): if bootstrap_servers != 'unknown:9093' and connection_string
GuardEnabled(e) ==
  BootstrapServers(e) # "unknown:9093" /\ e.EVENT_HUBS_CONNECTION_STRING # ""

(***************************************************************************)
(* Connector configurations (the keys the claims speak about).             *)
(***************************************************************************)
\* a source configuration that lets the connector create topics with three
\* partitions
build_source_config_three_partitions(master_uri, master_password) ==
  [ class |-> "org.neo4j.connectors.kafka.source.Neo4jConnector",
    uri |-> master_uri,
    password |-> master_password,
    strategy |-> "CDC",
    cdc_topic |-> "cdc-all",
    topics |-> "",
    partitions |-> 3 ]

build_source_config(master_uri, master_password) ==
  [ class |-> "org.neo4j.connectors.kafka.source.Neo4jConnector",
    uri |-> master_uri,
    password |-> master_password,
    strategy |-> "CDC",
    cdc_topic |-> "cdc-all",
    topics |-> "",
    partitions |-> 1 ]

\* a sink configuration with a value that differs from one run to the next
build_sink_config_per_run(subscriber_uri, subscriber_password) ==
  [ class |-> "org.neo4j.connectors.kafka.sink.Neo4jConnector",
    uri |-> subscriber_uri,
    password |-> subscriber_password,
    strategy |-> "",
    cdc_topic |-> "",
    topics |-> IF run = 1 THEN "cdc-all" ELSE "cdc-all-rerun",
    partitions |-> 0 ]

build_sink_config(subscriber_uri, subscriber_password) ==
  [ class |-> "org.neo4j.connectors.kafka.sink.Neo4jConnector",
    uri |-> subscriber_uri,
    password |-> subscriber_password,
    strategy |-> "",
    cdc_topic |-> "",
    topics |-> "cdc-all",
    partitions |-> 0 ]

(***************************************************************************)
(* The steps of main()'s try block, in program order.                      *)
(***************************************************************************)
MainSteps ==
  { "wait", "guard", "deploy_pub", "deploy_cons", "verify_pub", "verify_cons",
    "restart", "reverify_pub", "return0" }

\* main() without the second verify_connector call on the publisher
MainNextNoReverify(step) ==
  CASE step = "wait" -> "guard"
    [] step = "guard" -> "deploy_pub"
    [] step = "deploy_pub" -> "deploy_cons"
    [] step = "deploy_cons" -> "verify_pub"
    [] step = "verify_pub" -> "verify_cons"
    [] step = "verify_cons" -> "restart"
    [] step = "restart" -> "return0"
    [] step = "reverify_pub" -> "return0"

\* main() with the partition check moved behind the two deploy_connector calls
MainNextGuardLate(step) ==
  CASE step = "wait" -> "deploy_pub"
    [] step = "deploy_pub" -> "deploy_cons"
    [] step = "deploy_cons" -> "guard"
    [] step = "guard" -> "verify_pub"
    [] step = "verify_pub" -> "verify_cons"
    [] step = "verify_cons" -> "restart"
    [] step = "restart" -> "reverify_pub"
    [] step = "reverify_pub" -> "return0"

\* main() with the restart issued before the consumer is verified
MainNextRestartEarly(step) ==
  CASE step = "wait" -> "guard"
    [] step = "guard" -> "deploy_pub"
    [] step = "deploy_pub" -> "deploy_cons"
    [] step = "deploy_cons" -> "verify_pub"
    [] step = "verify_pub" -> "restart"
    [] step = "restart" -> "verify_cons"
    [] step = "verify_cons" -> "reverify_pub"
    [] step = "reverify_pub" -> "return0"

\* main(): the statement that follows `step` when it returns normally
MainNext(step) ==
  CASE step = "wait" -> "guard"
    [] step = "guard" -> "deploy_pub"
    [] step = "deploy_pub" -> "deploy_cons"
    [] step = "deploy_cons" -> "verify_pub"
    [] step = "verify_pub" -> "verify_cons"
    [] step = "verify_cons" -> "restart"
    [] step = "restart" -> "reverify_pub"
    [] step = "reverify_pub" -> "return0"

\* main(): the connector a deploy_connector / verify_connector call names
ConnectorOf(step) ==
  IF step \in {"deploy_pub", "verify_pub", "reverify_pub"} THEN Publisher ELSE Consumer

\* main(): the configuration passed to deploy_connector
ConfigOf(step, e) ==
  IF step = "deploy_pub"
  THEN build_source_config(e.MASTER_NEO4J_URI, e.MASTER_NEO4J_PASSWORD)
  ELSE build_sink_config(e.SUBSCRIBER_NEO4J_URI, e.SUBSCRIBER_NEO4J_PASSWORD)

\* main(): both except clauses return 1
MainExcept(type) ==
  IF type \in {"TimeoutError", "RuntimeError"} THEN 1 ELSE 1

(***************************************************************************)
(* HTTP exchanges.  A response is an HTTP answer or the exception the      *)
(* requests library raised instead.                                        *)
(***************************************************************************)
NoTrace == "<no trace key>"
NoState == "<no state key>"
Http(code, tasks) == [ kind |-> "http", code |-> code, tasks |-> tasks ]
Exc(kind) == [ kind |-> kind, code |-> 0, tasks |-> << >> ]
Task(state, trace) == [ state |-> state, trace |-> trace ]
NoEv == [ op |-> "", name |-> "", resp |-> Exc("") ]
Ev(op, name, resp) == [ op |-> op, name |-> name, resp |-> resp ]
NoExc == [ type |-> "", name |-> "" ]

\* GET {url}/
RootResponses ==
  { Http(200, << >>), Http(503, << >>), Exc("RequestException") }

\* wait_for_connect: if resp.status_code == 200 (a RequestException is passed over)
WaitReady(resp) == resp.kind = "http" /\ resp.code = 200

\* PUT {url}/connectors/{name}/config
PutResponses ==
  { Http(c, << >>) : c \in {200, 201, 400, 500} } \cup { Exc("Timeout"), Exc("ConnectionError") }

\* deploy_connector without the status check
DeployOkUnchecked(resp) == TRUE

\* deploy_connector: if resp.status_code not in (200, 201): raise RuntimeError
DeployOk(resp) == resp.code \in {200, 201}

\* GET {url}/connectors/{name}/status; "ValueError" stands for a body that
\* resp.json() or the .get() calls cannot read, an exception that is not a
\* requests.RequestException
StatusResponses ==
  { Http(200, << >>), Http(404, << >>), Exc("RequestException"), Exc("ValueError") }
  \cup { Http(200, << Task(s, NoTrace) >>) : s \in {"RUNNING", "UNASSIGNED", NoState} }
  \cup { Http(200, << Task("FAILED", t) >>) : t \in {NoTrace, "org.apache.kafka.connect.errors.ConnectException"} }

\* verify_connector without the FAILED branch
TaskVerdictNoFailed(resp) ==
  IF resp.kind = "RequestException" THEN "continue"
  ELSE IF resp.kind # "http" THEN "propagate"
  ELSE IF resp.code = 200
       THEN IF resp.tasks # << >> /\ resp.tasks[1].state = "RUNNING" THEN "return"
            ELSE "continue"
       ELSE "continue"

\* verify_connector: what one iteration of the loop does with the response
TaskVerdict(resp) ==
  IF resp.kind = "RequestException" THEN "continue"
  ELSE IF resp.kind # "http" THEN "propagate"
  ELSE IF resp.code = 200
       THEN IF resp.tasks # << >> /\ resp.tasks[1].state = "RUNNING" THEN "return"
            ELSE IF resp.tasks # << >> /\ resp.tasks[1].state = "FAILED" THEN "raise"
            ELSE "continue"
       ELSE "continue"

\* verify_connector: trace = tasks[0].get("trace", "No trace available")
ReportedTrace(resp) ==
  IF resp.tasks[1].trace = NoTrace THEN "No trace available" ELSE resp.tasks[1].trace

\* POST {url}/connectors/neo4j-master-publisher/tasks/0/restart
RestartResponses ==
  { Http(c, << >>) : c \in {200, 202, 204, 404, 409, 500} } \cup { Exc("RequestException") }

\* POST /connectors/<name>/tasks/0/restart: the broker took the request
RestartAccepted(resp) == resp.kind = "http" /\ resp.code \in {200, 202, 204}

\* a restart step that prints no warning whatever the status
RestartWarnsNever(resp) == FALSE

\* main(): if resp.status_code not in (200, 202, 204): warning
RestartWarns(resp) == resp.code \notin {200, 202, 204}


(***************************************************************************)
(* The Ordering Invariant Guard: verify_topic_partitions.                  *)
(***************************************************************************)
Msg(msg, arg) == [ msg |-> msg, arg |-> arg ]

\* what the kafka-python admin client can do when the function runs
GuardOutcomes ==
  { [ kind |-> k, n |-> 0 ] :
      k \in { "ImportError", "NoBrokersAvailable", "UnknownTopicOrPartitionError",
              "KafkaError", "topic_not_in_metadata" } }
  \cup { [ kind |-> "metadata", n |-> n ] : n \in 1..MaxPartitions }

NoOutcome == [ kind |-> "", n |-> 0 ]

\* the statements of the two nested try blocks, up to the first exception
GuardBody(o) ==
  CASE o.kind \in {"ImportError", "NoBrokersAvailable"} ->
         [ out |-> {}, err |-> {}, raised |-> o.kind, inner |-> FALSE ]
    [] o.kind \in {"UnknownTopicOrPartitionError", "KafkaError"} ->
         [ out |-> {}, err |-> {}, raised |-> o.kind, inner |-> TRUE ]
    [] o.kind = "topic_not_in_metadata" ->
         [ out |-> {"not_yet_created"}, err |-> {}, raised |-> "", inner |-> TRUE ]
    [] o.kind = "metadata" /\ o.n = ExpectedPartitions ->
         [ out |-> {"ok"}, err |-> {}, raised |-> "", inner |-> TRUE ]
    [] o.kind = "metadata" /\ o.n # ExpectedPartitions ->
         [ out |-> {}, err |-> {Msg("critical_mismatch", "")},
           raised |-> "RuntimeError", inner |-> TRUE ]

\* a describe_topics block without its except clause
GuardInnerExceptNone(r) == r

\* except UnknownTopicOrPartitionError, around the describe_topics block
GuardInnerExcept(r) ==
  IF r.inner /\ r.raised = "UnknownTopicOrPartitionError"
  THEN [ r EXCEPT !.out = r.out \cup {"not_yet_created"}, !.raised = "" ]
  ELSE r

\* a body guarded by except ImportError only
GuardOuterExceptImportOnly(r) ==
  IF r.raised = "ImportError"
  THEN [ r EXCEPT !.err = r.err \cup {Msg("warn_no_kafka_python", "")}, !.raised = "" ]
  ELSE r

\* except ImportError / except Exception, around the whole body: every
\* exception the body can raise is an Exception
GuardOuterExcept(r) ==
  IF r.raised = "" THEN r
  ELSE IF r.raised = "ImportError"
       THEN [ r EXCEPT !.err = r.err \cup {Msg("warn_no_kafka_python", "")}, !.raised = "" ]
       ELSE [ r EXCEPT !.err = r.err \cup {Msg("warn_could_not_verify", "")}, !.raised = "" ]

verify_topic_partitions(o) == GuardOuterExcept(GuardInnerExcept(GuardBody(o)))

(***************************************************************************)
(* The control plane (Kafka Connect) as deploy_connector relies on it:     *)
(* "Deploy or update a connector using PUT (idempotent)".                  *)
(***************************************************************************)
\* PUT {url}/connectors/{name}/config creates the connector or replaces its
\* configuration
PutApply(table, name, config) ==
  [ n \in DOMAIN table \cup {name} |-> IF n = name THEN config ELSE table[n] ]

\* whether the control plane can answer `resp` having stored (applied) or not
\* stored the configuration: 200 and 201 report the write, any other status
\* reports that nothing was written, and an exception raised on the client
\* side (a timeout, a lost connection) tells nothing about the write
PutPossible(resp, applied) ==
  IF resp.kind = "http" THEN applied <=> resp.code \in {200, 201} ELSE TRUE

(***************************************************************************)
(* The other programs while the deployment script is the one running.      *)
(***************************************************************************)
HbParked ==
  /\ hbEnv = [ NEO4J_URI |-> "", NEO4J_PASSWORD |-> "", HEARTBEAT_INTERVAL |-> 0 ]
  /\ hbPc = "off"
  /\ hbExit = -1
  /\ SHUTDOWN = FALSE
  /\ consecutive_failures = 0
  /\ sleepLeft = 0
  /\ srcSeq = 0
  /\ hbNet = FALSE
  /\ streak = 0
  /\ reconnects = 0
  /\ prevSeq = 0
  /\ lastSeq = 0
  /\ afterStop = 0
  /\ driverOpen = FALSE
  /\ leaked = FALSE
  /\ hbEntered = FALSE
  /\ lastBeat = ""
  /\ hbRaised = FALSE

NoWait == [ returned |-> FALSE, success |-> FALSE, elapsed |-> 0 ]
NoEval == [ done |-> FALSE, result |-> FALSE, at |-> 0 ]

LiveParked ==
  /\ liveEnv = [ MASTER_NEO4J_URI |-> "", MASTER_NEO4J_PASSWORD |-> "",
                 SUBSCRIBER_NEO4J_URI |-> "", SUBSCRIBER_NEO4J_PASSWORD |-> "" ]
  /\ livePc = "off"
  /\ liveExit = -1
  /\ liveClients = {}
  /\ liveNet = {}
  /\ liveNow = 0
  /\ liveWait = NoWait
  /\ liveTest = ""
  /\ liveEval = NoEval
  /\ liveArrived = FALSE
  /\ liveReadFailed = FALSE
  /\ livePassed = {}

\* the databases and the warm-up while no program that uses them runs
DbParked ==
  /\ srcPerson = ""
  /\ tgtPerson = ""
  /\ srcMarker = ""
  /\ tgtMarker = ""
  /\ pipe = << >>

WuParked ==
  /\ wuPc = "idle"
  /\ wuNow = 0
  /\ wuSuccess = FALSE
  /\ wuSeen = FALSE
  /\ wuDeleteIssued = FALSE
  /\ wuElapsed = 0

WfcParked ==
  /\ wfcPc = "off"
  /\ wfcTimeout = 0
  /\ wfcInterval = 0
  /\ wfcNow = 0
  /\ wfcRet = NoWait
  /\ wfcEvals = << >>

NoEnv4 ==
  [ MASTER_NEO4J_URI |-> "", MASTER_NEO4J_PASSWORD |-> "",
    SUBSCRIBER_NEO4J_URI |-> "", SUBSCRIBER_NEO4J_PASSWORD |-> "" ]

NoObs == << >>

VfParked ==
  /\ vfEnv = NoEnv4
  /\ vfPc = "off"
  /\ vfExit = -1
  /\ vfObs = NoObs
  /\ vfMatched = FALSE

NoCounts == [ source_nodes |-> 0, target_nodes |-> 0, source_rels |-> 0, target_rels |-> 0 ]
NoReport == [ printed |-> FALSE, source_off |-> FALSE, nodes |-> {}, rels |-> {} ]

BulkParked ==
  /\ bulkEnv = NoEnv4
  /\ bulkPc = "off"
  /\ bulkExit = -1
  /\ bulkClients = {}
  /\ bulkNow = 0
  /\ bulkCounts = NoCounts
  /\ bulkRet = NoWait
  /\ bulkReport = NoReport
  /\ bulkConverged = FALSE

NoGraph == [ persons |-> 0, rels |-> 0 ]

SnapParked ==
  /\ snapPlan = << >>
  /\ snapPos = 0
  /\ snapDb = [ e \in {"source", "target"} |-> NoGraph ]
  /\ snapObs = << >>
  /\ snapWrites = 0
  /\ snapSeen = [ e \in {"source", "target"} |-> {} ]

CdcParked ==
  /\ cdcPc = "off"
  /\ cdcTimeout = 0
  /\ cdcI = 0
  /\ cdcRet = "none"
  /\ cdcSlept = 0
  /\ cdcLast = "none"

EmptyGraph == [ companies |-> {}, persons |-> {}, worksAt |-> {}, knows |-> {} ]

GenParked ==
  /\ genPc = "off"
  /\ genExit = -1
  /\ genGraph = EmptyGraph
  /\ genStats = [ nodes |-> 0, rels |-> 0 ]

\* no file at CACHE_FILE
NoCacheFile == [ kind |-> "absent", tsKind |-> "missing", ts |-> 0, token |-> "" ]

TokParked ==
  /\ tokPc = "off"
  /\ tokExit = -1
  /\ tokEnv = [ id |-> FALSE, secret |-> FALSE ]
  /\ tokCache = NoCacheFile
  /\ tokNow = 0
  /\ tokToken = ""
  /\ tokOut = ""
  /\ tokCache0 = NoCacheFile
  /\ tokResp = "none"
  /\ tokStored = FALSE

\* the parts after Part V while another program runs
MoreParked == SnapParked /\ CdcParked /\ GenParked /\ TokParked

\* the variables of the parts other than Part I, Part II
notDeploy == << hbVars, liveVars, dbVars, wuVars, wfcVars, vfVars, bulkVars, moreVars >>
notHb == << deployVars, liveVars, dbVars, wuVars, wfcVars, vfVars, bulkVars, moreVars >>

(***************************************************************************)
(* Initial state: the script is started on a control plane without         *)
(* connectors, with any environment.                                       *)
(***************************************************************************)
NoGuard == [ called |-> FALSE, skipped |-> FALSE, outcome |-> NoOutcome, out |-> {} ]
NoFirstRun == [ ended |-> FALSE, exit |-> -1, connectors |-> << >> ]

FreshRun ==
  /\ pc = "start"
  /\ elapsed = 0
  /\ exitCode = -1
  /\ raised = NoExc
  /\ stderr = {}
  /\ lastEv = NoEv
  /\ puts = << >>
  /\ lastPoll = [ n \in Names |-> Exc("") ]
  /\ restarts = 0
  /\ pubPolledAfterRestart = FALSE
  /\ restartPending = FALSE
  /\ staleReturn = FALSE
  /\ verified = {}
  /\ waitReturned = FALSE
  /\ guard = NoGuard
  /\ refusals = 0

Init ==
  /\ MoreParked
  /\ env \in EnvValues
  /\ connectors = << >>
  /\ run = 1
  /\ firstRun = NoFirstRun
  /\ FreshRun
  /\ HbParked
  /\ LiveParked
  /\ DbParked
  /\ WuParked
  /\ WfcParked
  /\ VfParked
  /\ BulkParked

(***************************************************************************)
(* main()                                                                  *)
(***************************************************************************)
history == << lastEv, puts, lastPoll, restarts, pubPolledAfterRestart, restartPending, staleReturn, verified,
              waitReturned, guard, refusals >>

\* an exception leaves the try block: one of main()'s except clauses prints
\* it and returns 1
Fail(type, name, msgs) ==
  /\ pc' = "done"
  /\ exitCode' = MainExcept(type)
  /\ raised' = [ type |-> type, name |-> name ]
  /\ stderr' = stderr \cup msgs \cup
       { Msg(IF type \in {"TimeoutError", "RuntimeError"} THEN "Error" ELSE "Unexpected error", name) }

\* lines 238-259: read and validate the environment
MainValidate ==
  /\ pc = "start"
  /\ IF Missing(env) # {}
     THEN /\ pc' = "done"
          /\ exitCode' = 1
          /\ stderr' = stderr \cup {Msg("missing_env", "")}
     ELSE /\ pc' = "wait"
          /\ UNCHANGED << exitCode, stderr >>
  /\ elapsed' = 0
  /\ UNCHANGED << env, raised, connectors, run, firstRun, history >>

\* wait_for_connect: one iteration of the loop
WaitPoll ==
  /\ pc = "wait"
  /\ elapsed < WaitTimeout
  /\ \E resp \in RootResponses, d \in ReqDurations :
       /\ lastEv' = Ev("GET /", "", resp)
       /\ refusals' = IF resp.kind = "http" THEN 0
                      ELSE IF refusals < MaxRefusals THEN refusals + 1 ELSE refusals
       /\ IF WaitReady(resp)
          THEN /\ pc' = MainNext("wait")
               /\ waitReturned' = TRUE
               /\ elapsed' = 0
          ELSE /\ elapsed' = elapsed + d + SleepSecs
               /\ UNCHANGED << pc, waitReturned >>
  /\ UNCHANGED << env, exitCode, raised, stderr, connectors, run, firstRun, puts,
                  lastPoll, restarts, pubPolledAfterRestart, restartPending, staleReturn, verified, guard >>

\* wait_for_connect: the loop condition fails, TimeoutError
WaitTimeoutRaise ==
  /\ pc = "wait"
  /\ elapsed >= WaitTimeout
  /\ Fail("TimeoutError", "Kafka Connect", {})
  /\ UNCHANGED << env, elapsed, connectors, run, firstRun, history >>

\* lines 267-276: the partition check is called
GuardRun ==
  /\ pc = "guard"
  /\ GuardEnabled(env)
  /\ \E o \in GuardOutcomes :
       LET r == verify_topic_partitions(o) IN
       /\ guard' = [ called |-> TRUE, skipped |-> FALSE, outcome |-> o, out |-> r.out ]
       /\ IF r.raised = ""
          THEN /\ pc' = MainNext("guard")
               /\ stderr' = stderr \cup r.err
               /\ UNCHANGED << exitCode, raised >>
          ELSE Fail(r.raised, Topic, r.err)
  /\ elapsed' = 0
  /\ UNCHANGED << env, connectors, run, firstRun, lastEv, puts, lastPoll, restarts,
                  pubPolledAfterRestart, restartPending, staleReturn, verified, waitReturned, refusals >>

\* lines 277-279: the partition check is skipped with a warning
GuardSkip ==
  /\ pc = "guard"
  /\ ~GuardEnabled(env)
  /\ guard' = [ guard EXCEPT !.skipped = TRUE ]
  /\ stderr' = stderr \cup {Msg("warn_skip_partition_check", "")}
  /\ pc' = MainNext("guard")
  /\ elapsed' = 0
  /\ UNCHANGED << env, exitCode, raised, connectors, run, firstRun, lastEv, puts,
                  lastPoll, restarts, pubPolledAfterRestart, restartPending, staleReturn, verified, waitReturned,
                  refusals >>

\* deploy_connector
Deploy ==
  /\ pc \in {"deploy_pub", "deploy_cons"}
  /\ LET name == ConnectorOf(pc)
         config == ConfigOf(pc, env)
     IN \E resp \in PutResponses, applied \in BOOLEAN :
          /\ PutPossible(resp, applied)
          /\ connectors' = IF applied THEN PutApply(connectors, name, config) ELSE connectors
          /\ puts' = Append(puts, name)
          /\ lastEv' = Ev("PUT", name, resp)
          /\ IF resp.kind # "http"
             THEN Fail(resp.kind, name, {})
             ELSE IF DeployOk(resp)
                  THEN /\ pc' = MainNext(pc)
                       /\ UNCHANGED << exitCode, raised, stderr >>
                  ELSE Fail("RuntimeError", name, {Msg("deploy_error", name)})
  /\ elapsed' = 0
  /\ UNCHANGED << env, run, firstRun, lastPoll, restarts, pubPolledAfterRestart, restartPending, staleReturn,
                  verified, waitReturned, guard, refusals >>

\* verify_connector: one iteration of the loop
VerifyPoll ==
  /\ pc \in {"verify_pub", "verify_cons", "reverify_pub"}
  /\ elapsed < VerifyTimeout
  /\ LET name == ConnectorOf(pc) IN
     \E resp \in StatusResponses, d \in ReqDurations :
       /\ lastEv' = Ev("GET status", name, resp)
       /\ lastPoll' = [ lastPoll EXCEPT ![name] = resp ]
       /\ pubPolledAfterRestart' =
            IF name = Publisher THEN restarts > 0 ELSE pubPolledAfterRestart
       /\ staleReturn' =
            (staleReturn \/ (pc = "reverify_pub" /\ TaskVerdict(resp) = "return" /\ restartPending))
       /\ CASE TaskVerdict(resp) = "return" ->
                 /\ verified' = verified \cup {pc}
                 /\ pc' = MainNext(pc)
                 /\ elapsed' = 0
                 /\ UNCHANGED << exitCode, raised, stderr >>
            [] TaskVerdict(resp) = "raise" ->
                 /\ Fail("RuntimeError", name, {Msg("task_failed", ReportedTrace(resp))})
                 /\ UNCHANGED << verified, elapsed >>
            [] TaskVerdict(resp) = "propagate" ->
                 /\ Fail(resp.kind, name, {})
                 /\ UNCHANGED << verified, elapsed >>
            [] OTHER ->
                 /\ elapsed' = elapsed + d + SleepSecs
                 /\ UNCHANGED << pc, exitCode, raised, stderr, verified >>
  /\ UNCHANGED << env, connectors, run, firstRun, puts, restarts, restartPending, waitReturned, guard,
                  refusals >>

\* verify_connector: the loop condition fails, TimeoutError
VerifyTimeoutRaise ==
  /\ pc \in {"verify_pub", "verify_cons", "reverify_pub"}
  /\ elapsed >= VerifyTimeout
  /\ Fail("TimeoutError", ConnectorOf(pc), {})
  /\ UNCHANGED << env, elapsed, connectors, run, firstRun, history >>

\* lines 296-302: restart the source task
Restart ==
  /\ pc = "restart"
  /\ \E resp \in RestartResponses :
       /\ lastEv' = Ev("POST restart", Publisher, resp)
       /\ restartPending' = (restartPending \/ RestartAccepted(resp))
       /\ IF resp.kind # "http"
          THEN Fail(resp.kind, Publisher, {})
          ELSE /\ pc' = MainNext("restart")
               /\ stderr' = stderr \cup
                    (IF RestartWarns(resp) THEN {Msg("warn_restart", "")} ELSE {})
               /\ UNCHANGED << exitCode, raised >>
  /\ restarts' = restarts + 1
  /\ pubPolledAfterRestart' = FALSE
  /\ UNCHANGED staleReturn
  /\ elapsed' = 0
  /\ UNCHANGED << env, connectors, run, firstRun, puts, lastPoll, verified,
                  waitReturned, guard, refusals >>

\* the broker carries out an accepted restart: the task is stopped and
\* started again, at a time of the broker's choosing
BrokerRestarts ==
  /\ restartPending
  /\ restartPending' = FALSE
  /\ UNCHANGED << env, pc, elapsed, exitCode, raised, stderr, connectors, run, lastEv,
                  puts, lastPoll, restarts, pubPolledAfterRestart, staleReturn, verified,
                  waitReturned, guard, refusals, firstRun >>

\* lines 306-307
Return0 ==
  /\ pc = "return0"
  /\ pc' = "done"
  /\ exitCode' = 0
  /\ UNCHANGED << env, elapsed, raised, stderr, connectors, run, firstRun, history >>

\* the script is run again with the same environment (terraform apply re-run)
StartRun ==
  /\ pc = "done"
  /\ run < MaxRuns
  /\ run' = run + 1
  /\ firstRun' = IF run = 1
                 THEN [ ended |-> TRUE, exit |-> exitCode, connectors |-> connectors ]
                 ELSE firstRun
  /\ pc' = "start"
  /\ elapsed' = 0
  /\ exitCode' = -1
  /\ raised' = NoExc
  /\ stderr' = {}
  /\ lastEv' = NoEv
  /\ puts' = << >>
  /\ lastPoll' = [ n \in Names |-> Exc("") ]
  /\ restarts' = 0
  /\ pubPolledAfterRestart' = FALSE
  /\ staleReturn' = FALSE
  /\ UNCHANGED restartPending
  /\ verified' = {}
  /\ waitReturned' = FALSE
  /\ guard' = NoGuard
  /\ refusals' = 0
  /\ UNCHANGED << env, connectors >>

Next ==
  \/ MainValidate /\ UNCHANGED notDeploy
  \/ WaitPoll /\ UNCHANGED notDeploy
  \/ WaitTimeoutRaise /\ UNCHANGED notDeploy
  \/ GuardRun /\ UNCHANGED notDeploy
  \/ GuardSkip /\ UNCHANGED notDeploy
  \/ Deploy /\ UNCHANGED notDeploy
  \/ VerifyPoll /\ UNCHANGED notDeploy
  \/ VerifyTimeoutRaise /\ UNCHANGED notDeploy
  \/ Restart /\ UNCHANGED notDeploy
  \/ BrokerRestarts /\ UNCHANGED notDeploy
  \/ Return0 /\ UNCHANGED notDeploy
  \/ StartRun /\ UNCHANGED notDeploy

Spec == Init /\ [][Next]_vars

(***************************************************************************)
(* Properties of the deployment script.                                    *)
(***************************************************************************)
Range(q) == { q[i] : i \in DOMAIN q }
Count(q, x) == Cardinality({ i \in DOMAIN q : q[i] = x })
VerifySteps == {"verify_pub", "verify_cons", "reverify_pub"}

\* what a status response says about the first task
IsRunning(resp) ==
  resp.kind = "http" /\ resp.code = 200 /\ Len(resp.tasks) > 0 /\ resp.tasks[1].state = "RUNNING"
IsFailed(resp) ==
  resp.kind = "http" /\ resp.code = 200 /\ Len(resp.tasks) > 0 /\ resp.tasks[1].state = "FAILED"
IsTransitional(resp) ==
  \/ resp.kind = "RequestException"
  \/ resp.kind = "http" /\ resp.code # 200
  \/ resp.kind = "http" /\ resp.code = 200 /\ Len(resp.tasks) = 0
  \/ resp.kind = "http" /\ resp.code = 200 /\ Len(resp.tasks) > 0
       /\ resp.tasks[1].state \notin {"RUNNING", "FAILED"}

\* the step just taken sent an HTTP request to the control plane
RequestStep == WaitPoll \/ Deploy \/ VerifyPoll \/ Restart

\* the partition check was given a topic with a partition count other than 1
GuardSawMismatch ==
  guard.called /\ guard.outcome.kind = "metadata" /\ guard.outcome.n # ExpectedPartitions

\* C1: when the guard runs and the topic exists with a partition count other
\* than 1, the run aborts with exit code 1 and no connector configuration
\* is PUT in that run.
C1_MismatchAbortsBeforeSubmit ==
  GuardSawMismatch => (pc = "done" /\ exitCode = 1 /\ puts = << >>)

\* C2: the consumer's configuration is PUT only after the publisher has been
\* PUT and verify_connector has returned for the publisher.
C2_ConsumerAfterPublisherVerified ==
  Consumer \in Range(puts) => (Publisher \in Range(puts) /\ "verify_pub" \in verified)

\* both connectors were last seen RUNNING, the publisher after the restart
BothConfirmedRunning ==
  /\ \A n \in Names : IsRunning(lastPoll[n])
  /\ restarts >= 1
  /\ pubPolledAfterRestart

\* C3: the run returns 0 only if the latest status poll of each connector
\* reported its first task RUNNING and the publisher's latest poll followed
\* the restart request; every run that ends otherwise returns 1.
C3_SuccessOnlyIfBothRunning ==
  /\ exitCode = 0 => BothConfirmedRunning
  /\ pc = "done" => exitCode \in {0, 1}
  /\ (pc = "done" /\ ~BothConfirmedRunning) => exitCode = 1

C3_Witness ==
  pc = "done" /\ exitCode = 0 /\ BothConfirmedRunning

\* C4: a PUT that ends in a client-side timeout while the connector now
\* exists on the control plane is not a failure of the run.
C4_TimeoutWithConnectorPresentContinues ==
  (lastEv.op = "PUT" /\ lastEv.resp.kind = "Timeout" /\ lastEv.name \in DOMAIN connectors)
    => ~(pc = "done" /\ exitCode = 1)

\* C5: a PUT that timed out with the connector absent is reported as failed
\* only after the configuration has been re-submitted (3 retries).
C5_TimeoutWithConnectorAbsentRetried ==
  ( /\ pc = "done" /\ exitCode = 1
    /\ lastEv.op = "PUT" /\ lastEv.resp.kind = "Timeout"
    /\ lastEv.name \notin DOMAIN connectors )
    => Count(puts, lastEv.name) >= 3

\* C6: verify_connector returns at the first poll whose first task is RUNNING,
\* raises at the first poll whose first task is FAILED (printing the broker's
\* trace as it is, polling no more), keeps polling on every other answer, and
\* raises a TimeoutError naming the connector once the deadline has elapsed.
C6_VerifyRunning ==
  /\ \A n \in Names :
       (lastEv.op = "GET status" /\ lastEv.name = n) =>
         /\ IsRunning(lastEv.resp) =>
              /\ ~(pc \in VerifySteps /\ ConnectorOf(pc) = n)
              /\ raised = NoExc
              /\ \E st \in verified : ConnectorOf(st) = n
         /\ IsFailed(lastEv.resp) =>
              /\ pc = "done" /\ exitCode = 1
              /\ raised = [ type |-> "RuntimeError", name |-> n ]
              /\ lastEv.resp.tasks[1].trace # NoTrace =>
                   Msg("task_failed", lastEv.resp.tasks[1].trace) \in stderr
         /\ IsTransitional(lastEv.resp) =>
              \/ pc \in VerifySteps /\ ConnectorOf(pc) = n
              \/ /\ pc = "done" /\ exitCode = 1
                 /\ raised = [ type |-> "TimeoutError", name |-> n ]
  /\ pc \in VerifySteps => elapsed < VerifyTimeout + ReqTimeout + SleepSecs
  /\ (raised.type = "TimeoutError" /\ raised.name \in Names) =>
       /\ elapsed >= VerifyTimeout
       /\ lastEv.op = "GET status" /\ lastEv.name = raised.name
       /\ ~IsRunning(lastEv.resp)

C6_Witness ==
  /\ verified = {"verify_pub", "verify_cons"}
  /\ raised = [ type |-> "TimeoutError", name |-> Publisher ]
  /\ IsTransitional(lastEv.resp)

FatalExchange ==
  \/ lastEv.op = "PUT" /\ lastEv.resp.kind = "http" /\ lastEv.resp.code \notin {200, 201}
  \/ lastEv.op = "GET status" /\ IsFailed(lastEv.resp)

\* a step of the broker, not of the script: it carries out a pending restart
BrokerStep == restartPending /\ ~restartPending'

\* the polling loop being executed has reached its deadline
DeadlineElapsed ==
  \/ pc = "wait" /\ elapsed >= WaitTimeout
  \/ pc \in VerifySteps /\ elapsed >= VerifyTimeout

\* C8: after the first fatal step (wait timeout, PUT answered with a status
\* other than 200/201, task FAILED, verify timeout) the run sends no further
\* request and returns 1; a failed publisher PUT means no consumer PUT.
C8_FatalStepEndsRun ==
  /\ [](FatalExchange => (pc = "done" /\ exitCode = 1))
  /\ [][DeadlineElapsed /\ ~BrokerStep => (pc' = "done" /\ exitCode' = 1)]_vars
  /\ [][(pc = "done" \/ DeadlineElapsed) => ~RequestStep]_vars
  /\ []((FatalExchange /\ lastEv.op = "PUT" /\ lastEv.name = Publisher)
          => Consumer \notin Range(puts))

C8_Witness ==
  /\ pc = "done" /\ exitCode = 1
  /\ lastEv = Ev("PUT", Publisher, Http(500, << >>))
  /\ puts = << Publisher >>

\* C9: no configuration is PUT before wait_for_connect has returned and,
\* when the guard is enabled, before the partition check has returned.
C9_SubmitAfterReadyAndGuard ==
  puts # << >> => (waitReturned /\ (GuardEnabled(env) => guard.called))

C9_Witness ==
  puts # << >> /\ waitReturned /\ GuardEnabled(env) /\ guard.called

\* C10: the restart is requested at most once in a run, only after both
\* verify_connector calls have returned, never once the run has failed, and a
\* run returns 0 only after one restart followed by a verify_connector call
\* on the publisher that returned.
C10_RestartOnceAfterBothVerified ==
  /\ [](restarts <= 1)
  /\ [](restarts = 1 => {"verify_pub", "verify_cons"} \subseteq verified)
  /\ [](exitCode = 0 =>
          (restarts = 1 /\ "reverify_pub" \in verified /\ pubPolledAfterRestart))
  /\ [][exitCode = 1 => restarts' <= restarts]_vars
  /\ [][restarts' > restarts => (raised = NoExc /\ pc = "restart")]_vars

C10_Witness ==
  restarts = 1 /\ exitCode = 0 /\ "reverify_pub" \in verified

\* the state right after the partition step: no request has been sent since
\* wait_for_connect returned
JustPastGuard == waitReturned /\ pc # "guard" /\ lastEv.op = "GET /"

\* the messages verify_topic_partitions can write to stderr
GuardMsgs ==
  { Msg("critical_mismatch", ""), Msg("warn_no_kafka_python", ""),
    Msg("warn_could_not_verify", "") }

\* C11: whatever HTTP status the restart request returns, the run goes on to
\* poll the publisher again without failing, a warning is printed exactly
\* for a status other than 200/202/204, and a run that sent the restart and
\* got a status ends with 0 exactly when that last verify_connector returned.
C11_RestartStatusNeverAborts ==
  /\ (lastEv.op = "POST restart" /\ lastEv.resp.kind = "http") =>
        /\ pc = "reverify_pub" /\ exitCode = -1 /\ raised = NoExc
        /\ Msg("warn_restart", "") \in stderr <=> lastEv.resp.code \notin {200, 202, 204}
  /\ (pc = "done" /\ restarts = 1 /\ lastEv.op # "POST restart") =>
        (exitCode = 0 <=> "reverify_pub" \in verified)

C11_Witness ==
  pc = "done" /\ exitCode = 0 /\ Msg("warn_restart", "") \in stderr

\* C12: when the partition check runs and the topic is absent (not in the
\* metadata, or describe_topics raises UnknownTopicOrPartitionError) it
\* returns with the verdict not_yet_created, writes nothing to stderr and the
\* run goes on to the publisher's PUT; when the topic has exactly one
\* partition it does the same with the verdict ok.
C12_AbsentOrSinglePartitionPasses ==
  /\ (guard.called /\ guard.outcome.kind \in {"topic_not_in_metadata", "UnknownTopicOrPartitionError"})
        => guard.out = {"not_yet_created"}
  /\ (guard.called /\ guard.outcome.kind = "metadata" /\ guard.outcome.n = 1)
        => guard.out = {"ok"}
  /\ (guard.called /\ guard.out # {}) => stderr \cap GuardMsgs = {}
  /\ (guard.called /\ guard.out # {} /\ JustPastGuard) =>
        (pc = "deploy_pub" /\ exitCode = -1 /\ raised = NoExc)

C12_Witness ==
  /\ guard.called /\ guard.outcome.kind = "UnknownTopicOrPartitionError"
  /\ guard.out = {"not_yet_created"}
  /\ puts # << >>

\* the partition check could not be performed
GuardCouldNotCheck ==
  guard.called /\ guard.outcome.kind \in {"ImportError", "NoBrokersAvailable", "KafkaError"}

\* C13: when the check cannot be performed (kafka-python missing, no broker
\* reachable, describe_topics failing with an error other than unknown
\* topic) it gives no verdict, writes a warning and no error, and the run
\* goes on to the publisher's PUT.
C13_UnverifiableWarnsAndProceeds ==
  /\ GuardCouldNotCheck =>
        /\ guard.out = {}
        /\ stderr \cap GuardMsgs =
             { IF guard.outcome.kind = "ImportError"
               THEN Msg("warn_no_kafka_python", "") ELSE Msg("warn_could_not_verify", "") }
  /\ (GuardCouldNotCheck /\ JustPastGuard) =>
        (pc = "deploy_pub" /\ exitCode = -1 /\ raised = NoExc)

C13_Witness ==
  guard.called /\ guard.outcome.kind = "KafkaError" /\ puts # << >>

\* both the relay address and the connection secret are set
RelayConfigured == env.EVENT_HUBS_FQDN # "" /\ env.EVENT_HUBS_CONNECTION_STRING # ""

C15_ReadyOnlyOnListing ==
  (waitReturned /\ lastEv.op \in {"GET /", "GET /connectors"}) =>
     (lastEv.op = "GET /connectors" /\ lastEv.resp.kind = "http" /\ lastEv.resp.code = 200)

\* C16: once MaxRefusals polls of wait_for_connect in a row have raised
\* (connection refused among them), the network advisory has been written.
C16_AdvisoryAfterThreeRefusals ==
  (pc = "wait" /\ refusals >= 3) => Msg("firewall_advisory", "") \in stderr

(***************************************************************************)
(* Part II: the heartbeat agent, heartbeat/heartbeat.py.                   *)
(***************************************************************************)
\* the deployment script while another program is the one running
DeployParked ==
  /\ env = [ CONNECT_URL |-> "", MASTER_NEO4J_URI |-> "", MASTER_NEO4J_PASSWORD |-> "",
             SUBSCRIBER_NEO4J_URI |-> "", SUBSCRIBER_NEO4J_PASSWORD |-> "",
             EVENT_HUBS_FQDN |-> "", EVENT_HUBS_CONNECTION_STRING |-> "" ]
  /\ pc = "off"
  /\ elapsed = 0
  /\ exitCode = -1
  /\ raised = NoExc
  /\ stderr = {}
  /\ connectors = << >>
  /\ run = 1
  /\ lastEv = NoEv
  /\ puts = << >>
  /\ lastPoll = [ n \in Names |-> Exc("") ]
  /\ restarts = 0
  /\ pubPolledAfterRestart = FALSE
  /\ restartPending = FALSE
  /\ staleReturn = FALSE
  /\ verified = {}
  /\ waitReturned = FALSE
  /\ guard = NoGuard
  /\ refusals = 0
  /\ firstRun = NoFirstRun

\* NEO4J_URI, NEO4J_PASSWORD ("" is an unset variable) and
\* int(HEARTBEAT_INTERVAL); NEO4J_USERNAME has a default
HbEnvValues ==
  [ NEO4J_URI : {"", "neo4j+s://master"},
    NEO4J_PASSWORD : {"", "mpw"},
    HEARTBEAT_INTERVAL : 0..MaxInterval ]

\* main(): if not uri or not password
HbMissing(e) == e.NEO4J_URI = "" \/ e.NEO4J_PASSWORD = ""

\* send_heartbeat: SET h.seq = COALESCE(h.seq, 0) + 1 on the merged node
\* (seq 0 stands for a database without the node)
Merge(seq) == seq + 1

\* what session.run(...).consume() can meet inside send_heartbeat
BeatOutcomes == {"ok", "ServiceUnavailable", "SessionExpired", "Exception"}

\* a send_heartbeat that catches the two transport errors only
send_heartbeat_transport_only(o) ==
  IF o = "ok" THEN "True"
  ELSE IF o \in {"ServiceUnavailable", "SessionExpired"} THEN "False"
  ELSE "raise"

\* send_heartbeat: return True; except (ServiceUnavailable, SessionExpired):
\* return False; except Exception: return False
send_heartbeat(o) ==
  IF o = "ok" THEN "True"
  ELSE IF o \in {"ServiceUnavailable", "SessionExpired"} THEN "False"
  ELSE "False"

\* a reconnect that drops the old driver without closing it
ReconnectNoClose(d) == [ open |-> TRUE, leaked |-> d.leaked \/ d.open ]

\* main(), lines 107-113: try: driver.close() except Exception: pass, then
\* driver = GraphDatabase.driver(...) with the arguments of line 78
Reconnect(d) == [ open |-> TRUE, leaked |-> d.leaked ]

\* main(), lines 121-122: finally: driver.close()
FinallyClose(d) == [ open |-> FALSE, leaked |-> d.leaked ]

\* a threshold test that is off by one
ShouldReconnectLate(cf) == cf > max_failures

\* main(): if consecutive_failures >= max_failures
ShouldReconnect(cf) == cf >= max_failures

\* main(), lines 93-114: the counter after send_heartbeat returned `ok`, and
\* whether the driver was closed and created again
AfterAttempt(cf, ok) ==
  IF ok THEN [ cf |-> 0, reconnect |-> FALSE ]
  ELSE IF ShouldReconnect(cf + 1) THEN [ cf |-> 0, reconnect |-> TRUE ]
  ELSE [ cf |-> cf + 1, reconnect |-> FALSE ]

\* a sleep loop that does not look at the flag
SleepBreaksNever(shutdown) == FALSE

\* main(): for _ in range(interval): if SHUTDOWN: break
SleepBreaks(shutdown) == shutdown

HbInit ==
  /\ MoreParked
  /\ hbEnv \in HbEnvValues
  /\ hbPc = "start"
  /\ hbExit = -1
  /\ SHUTDOWN = FALSE
  /\ consecutive_failures = 0
  /\ sleepLeft = 0
  /\ srcSeq = 0
  /\ hbNet = FALSE
  /\ streak = 0
  /\ reconnects = 0
  /\ prevSeq = 0
  /\ lastSeq = 0
  /\ afterStop = 0
  /\ driverOpen = FALSE
  /\ leaked = FALSE
  /\ hbEntered = FALSE
  /\ lastBeat = ""
  /\ hbRaised = FALSE
  /\ DeployParked
  /\ LiveParked
  /\ DbParked
  /\ WuParked
  /\ WfcParked
  /\ VfParked
  /\ BulkParked

hbHistory == << streak, reconnects, prevSeq, lastSeq, afterStop >>
hbConn == << driverOpen, leaked, hbEntered, lastBeat, hbRaised >>

\* handle_signal: SIGTERM or SIGINT is delivered to the running process
HbSignal ==
  /\ hbPc \notin {"off", "done"}
  /\ SHUTDOWN' = TRUE
  /\ UNCHANGED << hbEnv, hbPc, hbExit, consecutive_failures, sleepLeft, srcSeq, hbNet,
                  hbHistory, hbConn >>

\* main(), lines 67-78: read the environment, validate, create the driver
\* (GraphDatabase.driver opens no connection)
HbValidate ==
  /\ hbPc = "start"
  /\ IF HbMissing(hbEnv)
     THEN hbPc' = "done" /\ hbExit' = 1 /\ UNCHANGED driverOpen
     ELSE hbPc' = "connect" /\ driverOpen' = TRUE /\ UNCHANGED hbExit
  /\ UNCHANGED << hbEnv, SHUTDOWN, consecutive_failures, sleepLeft, srcSeq, hbNet,
                  hbHistory, leaked, hbEntered, lastBeat, hbRaised >>

\* main(), lines 80-89: driver.verify_connectivity()
HbConnect ==
  /\ hbPc = "connect"
  /\ hbNet' = TRUE
  /\ \E ok \in BOOLEAN :
       IF ok
       THEN hbPc' = "while" /\ hbEntered' = TRUE /\ UNCHANGED hbExit
       ELSE hbPc' = "done" /\ hbExit' = 1 /\ UNCHANGED hbEntered
  /\ consecutive_failures' = 0
  /\ UNCHANGED << hbEnv, SHUTDOWN, sleepLeft, srcSeq, hbHistory, driverOpen, leaked,
                  lastBeat, hbRaised >>

\* main(), line 92: while not SHUTDOWN
HbWhile ==
  /\ hbPc = "while"
  /\ hbPc' = IF SHUTDOWN THEN "finally" ELSE "send"
  /\ UNCHANGED << hbEnv, hbExit, SHUTDOWN, consecutive_failures, sleepLeft, srcSeq,
                  hbNet, hbHistory, hbConn >>

\* main(), lines 93-114: send_heartbeat(driver), the failure counter and the
\* reconnect.  send_heartbeat returns True after the write, and False on any
\* exception, raised before the write or after it was committed.
HbSend ==
  /\ hbPc = "send"
  /\ \E o \in BeatOutcomes, applied \in BOOLEAN :
       LET res == send_heartbeat(o)
           ok == res = "True"
           r == AfterAttempt(consecutive_failures, ok)
           d == [ open |-> driverOpen, leaked |-> leaked ]
           dd == IF r.reconnect THEN Reconnect(d) ELSE d
       IN
       /\ o = "ok" => applied
       /\ applied => srcSeq < MaxSeq
       /\ o # "ok" => streak < MaxStreak
       /\ srcSeq' = IF applied THEN Merge(srcSeq) ELSE srcSeq
       /\ lastBeat' = o
       /\ IF res = "raise"
          THEN /\ hbRaised' = TRUE
               /\ hbPc' = "finally"
               /\ UNCHANGED << consecutive_failures, streak, reconnects, prevSeq,
                               lastSeq, driverOpen, leaked, sleepLeft >>
          ELSE /\ consecutive_failures' = r.cf
               /\ streak' = IF ok THEN 0 ELSE streak + 1
               /\ reconnects' =
                    IF ok THEN 0 ELSE IF r.reconnect THEN reconnects + 1 ELSE reconnects
               /\ prevSeq' = IF ok THEN lastSeq ELSE prevSeq
               /\ lastSeq' = IF ok THEN srcSeq' ELSE lastSeq
               /\ driverOpen' = dd.open
               /\ leaked' = dd.leaked
               /\ sleepLeft' = hbEnv.HEARTBEAT_INTERVAL
               /\ hbPc' = "for"
               /\ UNCHANGED hbRaised
  /\ hbNet' = TRUE
  /\ afterStop' = IF SHUTDOWN THEN afterStop + 1 ELSE afterStop
  /\ UNCHANGED << hbEnv, hbExit, SHUTDOWN, hbEntered >>

\* main(), lines 117-119: the head of the sleep loop and the test of the flag
HbFor ==
  /\ hbPc = "for"
  /\ IF sleepLeft = 0 \/ SleepBreaks(SHUTDOWN)
     THEN hbPc' = "while" /\ sleepLeft' = 0
     ELSE hbPc' = "sleep" /\ UNCHANGED sleepLeft
  /\ UNCHANGED << hbEnv, hbExit, SHUTDOWN, consecutive_failures, srcSeq, hbNet,
                  hbHistory, hbConn >>

\* main(), line 120: time.sleep(1)
HbSleep ==
  /\ hbPc = "sleep"
  /\ sleepLeft' = sleepLeft - 1
  /\ afterStop' = IF SHUTDOWN THEN afterStop + 1 ELSE afterStop
  /\ hbPc' = "for"
  /\ UNCHANGED << hbEnv, hbExit, SHUTDOWN, consecutive_failures, srcSeq, hbNet,
                  streak, reconnects, prevSeq, lastSeq, hbConn >>

\* main(), lines 121-123: finally: driver.close(); main() returns, or the
\* exception that left the loop ends the process with status 1
HbFinally ==
  /\ hbPc = "finally"
  /\ hbPc' = "done"
  /\ hbExit' = IF hbRaised THEN 1 ELSE 0
  /\ LET d == FinallyClose([ open |-> driverOpen, leaked |-> leaked ]) IN
       driverOpen' = d.open /\ leaked' = d.leaked
  /\ UNCHANGED << hbEnv, SHUTDOWN, consecutive_failures, sleepLeft, srcSeq, hbNet,
                  hbHistory, hbEntered, lastBeat, hbRaised >>

\* the demo generator (client.clear_database()) or the bulk test
\* (clear_databases) runs MATCH (n) DETACH DELETE n on the source
ClearSource ==
  /\ srcSeq' = 0
  /\ UNCHANGED << hbEnv, hbPc, hbExit, SHUTDOWN, consecutive_failures, sleepLeft,
                  hbNet, hbHistory, hbConn >>

HbNext ==
  \/ HbSignal /\ UNCHANGED notHb
  \/ HbValidate /\ UNCHANGED notHb
  \/ HbConnect /\ UNCHANGED notHb
  \/ HbWhile /\ UNCHANGED notHb
  \/ HbSend /\ UNCHANGED notHb
  \/ HbFor /\ UNCHANGED notHb
  \/ HbSleep /\ UNCHANGED notHb
  \/ HbFinally /\ UNCHANGED notHb
  \/ ClearSource /\ UNCHANGED notHb

HbSpec == HbInit /\ [][HbNext]_vars

(***************************************************************************)
(* Properties of the heartbeat agent.                                      *)
(***************************************************************************)
HbInLoop == hbPc \in {"while", "send", "for", "sleep"}

\* C18: the agent re-creates its driver exactly when ten heartbeats in a row
\* have failed, once for every ten; the counter is then 0, as after any
\* success, so that it is within 0..9 at every position of the tick loop.
C18_ReconnectEveryTenFailures ==
  HbInLoop =>
    /\ reconnects = streak \div 10
    /\ consecutive_failures = streak % 10
    /\ consecutive_failures \in 0..9

C18_Witness ==
  HbInLoop /\ streak = 10 /\ reconnects = 1 /\ consecutive_failures = 0

\* C19: once SHUTDOWN is set the agent begins at most one more heartbeat
\* attempt or one more one-second sleep (the one it was about to be in); a
\* test of the flag that finds it set never leads to a heartbeat or a sleep,
\* from the sleep loop it leads to the head of the tick loop and from there
\* out of the loop, whatever the interval.
C19_StopWithinOneStep ==
  /\ [](afterStop <= 1)
  /\ [][(SHUTDOWN /\ hbPc = "for") => hbPc' \in {"for", "while"}]_vars
  /\ [][(SHUTDOWN /\ hbPc = "while") => hbPc' \in {"while", "finally"}]_vars
  /\ [][(SHUTDOWN /\ hbPc = "finally") => hbPc' \in {"finally", "done"}]_vars

C19_Witness ==
  /\ SHUTDOWN /\ afterStop = 1 /\ hbPc = "done" /\ hbExit = 0
  /\ hbEnv.HEARTBEAT_INTERVAL >= 2

\* C20: the seq stored by a successful heartbeat is greater than the seq
\* stored by the successful heartbeat before it, also when the generator or
\* the bulk test clears the source database in between.
C20_SeqStrictlyIncreasing ==
  lastSeq > 0 => lastSeq > prevSeq

C22_NoDriverLeftOpen ==
  /\ (hbEntered /\ hbPc = "done") => (~driverOpen /\ ~leaked)
  /\ hbEntered => ~leaked

C22_Witness ==
  hbEntered /\ hbPc = "done" /\ reconnects >= 1 /\ ~driverOpen

(***************************************************************************)
(* Part III: the live test, python/test_live_cdc.py.  Time is counted in   *)
(* poll intervals of wait_for_condition (half a second).                   *)
(***************************************************************************)
LiveEnvValues ==
  [ MASTER_NEO4J_URI : {"", "neo4j+s://master"},
    MASTER_NEO4J_PASSWORD : {"", "mpw"},
    SUBSCRIBER_NEO4J_URI : {"", "neo4j+s://subscriber"},
    SUBSCRIBER_NEO4J_PASSWORD : {"", "spw"} ]

\* Neo4jClient.__init__: GraphDatabase.driver(uri, auth=(username, password))
\* builds the driver without connecting; it raises for a URI it cannot
\* parse (None), and takes any password
ClientCreated(uri, password) == uri # ""

\* main(), lines 117-130: the clients constructed before the first exception
ClientsCreated(e) ==
  IF ~ClientCreated(e.MASTER_NEO4J_URI, e.MASTER_NEO4J_PASSWORD) THEN {}
  ELSE IF ~ClientCreated(e.SUBSCRIBER_NEO4J_URI, e.SUBSCRIBER_NEO4J_PASSWORD) THEN {"source"}
  ELSE {"source", "target"}

\* what a query sent with this password can do: the server refuses a
\* connection without credentials, the driver raises
QueryOutcomes(password) == IF password = "" THEN {"raise"} ELSE {"ok", "raise"}

ReadTimes == {0, MaxReadTime}

CreatedName == "CDC Test User"
UpdatedName == "Updated CDC User"

\* the four check functions main() defines: o is what target.execute_read
\* did, tgt the name of Person {id: 9999} on the target; an exception gives
\* False
check_cleanup(o, tgt) == o = "ok" /\ tgt = ""
\* a check_create that takes a failing read for an arrival
check_create_lenient(o, tgt) == o = "raise" \/ tgt = CreatedName
check_create(o, tgt) == o = "ok" /\ tgt = CreatedName
check_update(o, tgt) == o = "ok" /\ tgt = UpdatedName
check_delete(o, tgt) == o = "ok" /\ tgt = ""

CheckFn(test, o, tgt) ==
  CASE test = "cleanup" -> check_cleanup(o, tgt)
    [] test = "create" -> check_create(o, tgt)
    [] test = "update" -> check_update(o, tgt)
    [] test = "delete" -> check_delete(o, tgt)

\* wait_for_condition(check_cleanup, timeout_seconds=10) and
\* wait_for_condition(check_fn) with the default PROPAGATION_TIMEOUT, in
\* poll intervals
TimeoutOf(test) ==
  IF test = "cleanup" THEN CleanupTimeoutSecs * PollsPerSecond
  ELSE LivePropagationTimeout * PollsPerSecond

\* a wait_for_condition that gives up without looking at the clock
WaitVerdictNoDeadline(result, waited, timeout) ==
  IF result THEN "return_true" ELSE "return_false"

\* wait_for_condition, one iteration: `waited` is the elapsed time taken
\* before check_fn ran
WaitVerdict(result, waited, timeout) ==
  IF result THEN "return_true"
  ELSE IF waited >= timeout THEN "return_false"
  ELSE "sleep"

\* a change event of the replication pipeline
Event(node, val) == [ node |-> node, val |-> val ]

\* the Cypher statements main() sends to the source: the value of Person
\* {id: 9999} after the statement (MERGE ... SET creates or overwrites, MATCH
\* ... SET and MATCH ... DELETE touch an existing node only)
PersonAfter(test, src) ==
  CASE test = "cleanup" -> ""
    [] test = "create" -> CreatedName
    [] test = "update" -> IF src = "" THEN "" ELSE UpdatedName
    [] test = "delete" -> ""

\* the statement changed the source (the MERGE also sets testRun = timestamp())
PersonChanged(test, src) == test = "create" \/ PersonAfter(test, src) # src

NextTest(test) ==
  CASE test = "create" -> "update"
    [] test = "update" -> "delete"
    [] OTHER -> ""

\* a check_warmup that takes a failing read for an arrival
check_warmup_lenient(o, marker) == o = "raise" \/ marker # ""

\* warm_up_pipeline.check_warmup: len(result) >= 1, False on any exception
check_warmup(o, marker) == o = "ok" /\ marker # ""

\* a warm-up loop without its deadline
WarmUpVerdictNoDeadline(found, waited) ==
  IF found THEN "success" ELSE "sleep"

\* warm_up_pipeline, one iteration of its loop: `waited` is the elapsed time
\* taken before check_warmup ran
WarmUpVerdict(found, waited) ==
  IF found THEN "success"
  ELSE IF waited >= WarmUpTimeoutSecs * PollsPerSecond THEN "give_up"
  ELSE "sleep"

\* the environment of the program that called warm_up_pipeline
WuCalled == livePc = "warm_up" \/ bulkPc = "warm_up"
WuEnv == IF bulkPc = "warm_up" THEN bulkEnv ELSE liveEnv

LiveInit ==
  /\ MoreParked
  /\ liveEnv \in LiveEnvValues
  /\ livePc = "start"
  /\ liveExit = -1
  /\ liveClients = {}
  /\ liveNet = {}
  /\ liveNow = 0
  /\ liveWait = NoWait
  /\ liveTest = ""
  /\ liveEval = NoEval
  /\ liveArrived = FALSE
  /\ liveReadFailed = FALSE
  /\ livePassed = {}
  /\ srcPerson \in {"", UpdatedName}
  /\ tgtPerson \in {"", CreatedName}
  /\ srcMarker = ""
  /\ tgtMarker = ""
  /\ pipe = << >>
  /\ WuParked
  /\ DeployParked
  /\ HbParked
  /\ WfcParked
  /\ VfParked
  /\ BulkParked

liveHistory == << liveEval, liveArrived, liveReadFailed >>

\* what check_fn of the running test looks for is on the target
Wanted(test, tgt) == CheckFn(test, "ok", tgt)

\* a wait_for_condition call starts
WaitStarts(test) ==
  /\ liveNow' = 0
  /\ liveWait' = NoWait
  /\ liveEval' = NoEval
  /\ liveArrived' = Wanted(test, tgtPerson)
  /\ liveReadFailed' = FALSE

\* main(), lines 117-130: construct both clients; any exception: sys.exit(1)
LiveConnect ==
  /\ livePc = "start"
  /\ liveClients' = ClientsCreated(liveEnv)
  /\ IF liveClients' = {"source", "target"}
     THEN livePc' = "cleanup1" /\ liveTest' = "cleanup" /\ UNCHANGED liveExit
     ELSE livePc' = "done" /\ liveExit' = 1 /\ UNCHANGED liveTest
  /\ UNCHANGED << liveEnv, liveNet, liveNow, liveWait, liveHistory, livePassed, dbVars,
                  wuVars >>

\* main(), lines 136-137: source.execute_write(...); an exception is not
\* caught and ends the process with status 1
LiveCleanupWrite ==
  /\ livePc \in {"cleanup1", "cleanup2"}
  /\ liveNet' = liveNet \cup {"source write"}
  /\ \E o \in QueryOutcomes(liveEnv.MASTER_NEO4J_PASSWORD) :
       IF o = "ok"
       THEN /\ livePc' = IF livePc = "cleanup1" THEN "cleanup2" ELSE "check_cleanup"
            /\ IF livePc = "cleanup1" /\ PersonChanged("cleanup", srcPerson)
               THEN /\ srcPerson' = PersonAfter("cleanup", srcPerson)
                    /\ pipe' = Append(pipe, Event("person", srcPerson'))
               ELSE UNCHANGED << srcPerson, pipe >>
            /\ UNCHANGED liveExit
       ELSE /\ livePc' = "done" /\ liveExit' = 1
            /\ UNCHANGED << srcPerson, pipe >>
  /\ UNCHANGED << liveEnv, liveClients, liveNow, liveWait, liveTest, liveHistory,
                  livePassed, tgtPerson, srcMarker, tgtMarker, wuVars >>

\* main(), line 147: if not check_cleanup()
LiveCheckCleanup ==
  /\ livePc = "check_cleanup"
  /\ liveNet' = liveNet \cup {"target read"}
  /\ \E o \in QueryOutcomes(liveEnv.SUBSCRIBER_NEO4J_PASSWORD) :
       livePc' = IF check_cleanup(o, tgtPerson) THEN "warm_up" ELSE "wait"
  /\ WaitStarts("cleanup")
  /\ UNCHANGED << liveEnv, liveExit, liveClients, liveTest, livePassed, dbVars, wuVars >>

\* wait_for_condition(check_fn, timeout), one iteration of its loop:
\* elapsed = time.time() - start; check_fn(); return or sleep
LiveWait ==
  /\ livePc = "wait"
  /\ liveNet' = liveNet \cup {"target read"}
  /\ \E o \in QueryOutcomes(liveEnv.SUBSCRIBER_NEO4J_PASSWORD), d \in ReadTimes :
       LET result == CheckFn(liveTest, o, tgtPerson)
           v == WaitVerdict(result, liveNow, TimeoutOf(liveTest))
       IN
       /\ liveEval' = [ done |-> TRUE, result |-> result, at |-> liveNow ]
       /\ liveReadFailed' = (liveReadFailed \/ o = "raise")
       /\ IF v = "sleep"
          THEN /\ liveNow' = liveNow + d + 1
               /\ liveArrived' =
                    (liveArrived \/ (Wanted(liveTest, tgtPerson) /\ liveNow' < TimeoutOf(liveTest)))
               /\ UNCHANGED << livePc, liveWait, livePassed >>
          ELSE /\ liveWait' = [ returned |-> TRUE, success |-> v = "return_true",
                                elapsed |-> liveNow ]
               /\ liveNow' = liveNow + d
               /\ livePc' = "after"
               /\ livePassed' = IF v = "return_true" /\ liveTest # "cleanup"
                                THEN livePassed \cup {liveTest} ELSE livePassed
               /\ UNCHANGED liveArrived
  /\ UNCHANGED << liveEnv, liveExit, liveClients, liveTest, dbVars, wuVars >>

\* main(), lines 152-154: warm_up_pipeline has returned, or raised; its
\* frame is gone
LiveWarmUpReturn ==
  /\ livePc = "warm_up"
  /\ wuPc \in {"returned", "raised"}
  /\ IF wuPc = "returned" /\ wuSuccess
     THEN livePc' = "write" /\ liveTest' = "create" /\ UNCHANGED liveExit
     ELSE livePc' = "done" /\ liveExit' = 1 /\ UNCHANGED liveTest
  /\ wuPc' = "idle"
  /\ wuNow' = 0
  /\ wuSuccess' = FALSE
  /\ wuSeen' = FALSE
  /\ wuDeleteIssued' = FALSE
  /\ wuElapsed' = 0
  /\ UNCHANGED << liveEnv, liveClients, liveNet, liveNow, liveWait, liveHistory,
                  livePassed, dbVars >>

\* main(), lines 160-167, 193-198, 226-231: the test's write to the source;
\* an exception: sys.exit(1)
LiveWrite ==
  /\ livePc = "write"
  /\ liveNet' = liveNet \cup {"source write"}
  /\ \E o \in QueryOutcomes(liveEnv.MASTER_NEO4J_PASSWORD) :
       IF o = "ok"
       THEN /\ livePc' = "wait"
            /\ IF PersonChanged(liveTest, srcPerson)
               THEN /\ srcPerson' = PersonAfter(liveTest, srcPerson)
                    /\ pipe' = Append(pipe, Event("person", srcPerson'))
               ELSE UNCHANGED << srcPerson, pipe >>
            /\ WaitStarts(liveTest)
            /\ UNCHANGED liveExit
       ELSE /\ livePc' = "done" /\ liveExit' = 1
            /\ UNCHANGED << srcPerson, pipe, liveNow, liveWait, liveHistory >>
  /\ UNCHANGED << liveEnv, liveClients, liveTest, livePassed, tgtPerson, srcMarker,
                  tgtMarker, wuVars >>

\* main(), line 148: the value wait_for_condition(check_cleanup, ...)
\* returned is dropped
LiveCleanupWaited ==
  /\ livePc = "after"
  /\ liveTest = "cleanup"
  /\ livePc' = "warm_up"
  /\ liveNow' = 0
  /\ liveWait' = NoWait
  /\ liveEval' = NoEval
  /\ liveArrived' = FALSE
  /\ liveReadFailed' = FALSE
  /\ UNCHANGED << liveEnv, liveExit, liveClients, liveNet, liveTest, livePassed, dbVars,
                  wuVars >>

\* main(), lines 178-185, 209-218, 242-248: the outcome of a test.  After a
\* successful CREATE or UPDATE poll main() reads the target again and prints
\* result[0]; an exception of the read and the IndexError for an empty
\* result are not caught
LiveAfter ==
  /\ livePc = "after"
  /\ liveTest # "cleanup"
  /\ IF ~liveWait.success
     THEN /\ livePc' = "done" /\ liveExit' = 1
          /\ liveNet' = IF liveTest = "update" THEN liveNet \cup {"target read"} ELSE liveNet
          /\ UNCHANGED liveTest
     ELSE IF liveTest = "delete"
     THEN livePc' = "close" /\ UNCHANGED << liveExit, liveTest, liveNet >>
     ELSE /\ liveNet' = liveNet \cup {"target read"}
          /\ \E o \in QueryOutcomes(liveEnv.SUBSCRIBER_NEO4J_PASSWORD) :
               IF o = "ok" /\ tgtPerson # ""
               THEN livePc' = "write" /\ liveTest' = NextTest(liveTest) /\ UNCHANGED liveExit
               ELSE livePc' = "done" /\ liveExit' = 1 /\ UNCHANGED liveTest
  /\ UNCHANGED << liveEnv, liveClients, liveNow, liveWait, liveHistory, livePassed, dbVars,
                  wuVars >>

\* main(), lines 255-259: source.close(); target.close(); return 0
LiveClose ==
  /\ livePc = "close"
  /\ liveClients' = {}
  /\ livePc' = "done"
  /\ liveExit' = 0
  /\ UNCHANGED << liveEnv, liveNet, liveNow, liveWait, liveTest, liveHistory, livePassed,
                  dbVars, wuVars >>

\* warm_up_pipeline, lines 62-71: create the marker on the source
WarmUpCreate ==
  /\ WuCalled
  /\ wuPc = "idle"
  /\ \E o \in QueryOutcomes(WuEnv.MASTER_NEO4J_PASSWORD) :
       IF o = "ok"
       THEN /\ wuPc' = "poll"
            /\ srcMarker' = "w"
            /\ pipe' = Append(pipe, Event("marker", "w"))
       ELSE /\ wuPc' = "raised"
            /\ UNCHANGED << srcMarker, pipe >>
  /\ wuNow' = 0
  /\ UNCHANGED << wuSuccess, wuSeen, wuDeleteIssued, wuElapsed, srcPerson, tgtPerson,
                  tgtMarker >>

\* warm_up_pipeline, lines 83-96: one iteration of the loop
WarmUpPoll ==
  /\ wuPc = "poll"
  /\ \E o \in QueryOutcomes(WuEnv.SUBSCRIBER_NEO4J_PASSWORD), d \in ReadTimes :
       LET v == WarmUpVerdict(check_warmup(o, tgtMarker), wuNow) IN
       /\ wuSeen' = (wuSeen \/ (o = "ok" /\ tgtMarker # ""))
       /\ IF v = "sleep"
          THEN /\ wuNow' = wuNow + d + WarmUpSleepSecs * PollsPerSecond
               /\ UNCHANGED << wuPc, wuSuccess, wuElapsed >>
          ELSE /\ wuSuccess' = (v = "success")
               /\ wuElapsed' = wuNow
               /\ wuNow' = wuNow + d
               /\ wuPc' = "delete"
  /\ UNCHANGED << wuDeleteIssued, dbVars >>

\* warm_up_pipeline, lines 98-109: delete the marker on the source, return
WarmUpDelete ==
  /\ wuPc = "delete"
  /\ wuDeleteIssued' = TRUE
  /\ \E o \in QueryOutcomes(WuEnv.MASTER_NEO4J_PASSWORD) :
       IF o = "ok"
       THEN /\ wuPc' = "returned"
            /\ srcMarker' = ""
            /\ pipe' = IF srcMarker # "" THEN Append(pipe, Event("marker", "")) ELSE pipe
       ELSE /\ wuPc' = "raised"
            /\ UNCHANGED << srcMarker, pipe >>
  /\ UNCHANGED << wuNow, wuSuccess, wuSeen, wuElapsed, srcPerson, tgtPerson, tgtMarker >>

\* the variables of the live test that the pipeline leaves alone
liveRest ==
  << liveEnv, livePc, liveExit, liveClients, liveNet, liveNow, liveWait, liveTest, liveEval,
     liveReadFailed, livePassed >>

\* the pipeline applies the oldest captured change to the target
Replicate ==
  /\ pipe # << >>
  /\ pipe' = Tail(pipe)
  /\ IF Head(pipe).node = "person"
     THEN tgtPerson' = Head(pipe).val /\ UNCHANGED tgtMarker
     ELSE tgtMarker' = Head(pipe).val /\ UNCHANGED tgtPerson
  /\ liveArrived' =
       (liveArrived \/ (livePc = "wait" /\ Wanted(liveTest, tgtPerson')
                          /\ liveNow < TimeoutOf(liveTest)))
  /\ UNCHANGED << srcPerson, srcMarker, wuVars, liveRest >>

notLive == << deployVars, hbVars, wfcVars, vfVars, bulkVars, moreVars >>

LiveNext ==
  \/ LiveConnect /\ UNCHANGED notLive
  \/ LiveCleanupWrite /\ UNCHANGED notLive
  \/ LiveCheckCleanup /\ UNCHANGED notLive
  \/ LiveWait /\ UNCHANGED notLive
  \/ LiveCleanupWaited /\ UNCHANGED notLive
  \/ LiveWarmUpReturn /\ UNCHANGED notLive
  \/ LiveWrite /\ UNCHANGED notLive
  \/ LiveAfter /\ UNCHANGED notLive
  \/ LiveClose /\ UNCHANGED notLive
  \/ WarmUpCreate /\ UNCHANGED << notLive, liveVars >>
  \/ WarmUpPoll /\ UNCHANGED << notLive, liveVars >>
  \/ WarmUpDelete /\ UNCHANGED << notLive, liveVars >>
  \/ Replicate /\ UNCHANGED notLive

LiveSpec == LiveInit /\ [][LiveNext]_vars

(***************************************************************************)
(* wait_for_condition (test_live_cdc.py, lines 33-51) on its own: any      *)
(* timeout, any interval, a check_fn that returns anything.                *)
(***************************************************************************)
WfcInit ==
  /\ MoreParked
  /\ wfcPc = "call"
  /\ wfcTimeout \in 0..MaxTimeout
  /\ wfcInterval \in 1..MaxPollInterval
  /\ wfcNow = 0
  /\ wfcRet = NoWait
  /\ wfcEvals = << >>
  /\ DeployParked
  /\ HbParked
  /\ LiveParked
  /\ DbParked
  /\ WuParked
  /\ VfParked
  /\ BulkParked

\* line 46: start = time.time()
WfcCall ==
  /\ wfcPc = "call"
  /\ wfcPc' = "loop"
  /\ wfcNow' = 0
  /\ UNCHANGED << wfcTimeout, wfcInterval, wfcRet, wfcEvals >>

\* lines 47-51, one iteration: elapsed = time.time() - start; check_fn();
\* return or sleep
WfcIterate ==
  /\ wfcPc = "loop"
  /\ \E r \in BOOLEAN, d \in ReadTimes :
       LET v == WaitVerdict(r, wfcNow, wfcTimeout) IN
       /\ wfcEvals' = Append(wfcEvals, [ result |-> r, at |-> wfcNow ])
       /\ IF v = "sleep"
          THEN /\ wfcNow' = wfcNow + d + wfcInterval
               /\ UNCHANGED << wfcPc, wfcRet >>
          ELSE /\ wfcNow' = wfcNow + d
               /\ wfcPc' = "returned"
               /\ wfcRet' = [ returned |-> TRUE, success |-> v = "return_true",
                              elapsed |-> wfcNow ]
  /\ UNCHANGED << wfcTimeout, wfcInterval >>

notWfc == << deployVars, hbVars, liveVars, dbVars, wuVars, vfVars, bulkVars, moreVars >>

WfcNext ==
  \/ WfcCall /\ UNCHANGED notWfc
  \/ WfcIterate /\ UNCHANGED notWfc

WfcSpec == WfcInit /\ [][WfcNext]_vars


(***************************************************************************)
(* Part IV: the verifier, python/verify_cdc.py.                            *)
(***************************************************************************)
\* the labels of the graphs: the labels of the data, and the label the sink
\* connector adds on the target
Labels == {"Person", "SourceEvent"}

\* what get_label_counts can return: the labels that occur, each with the
\* number of nodes that carry it
LabelCounts ==
  UNION { [ D -> 1..MaxLabelCount ] : D \in SUBSET Labels }

\* dict.get(label, 0)
Get(d, label) == IF label \in DOMAIN d THEN d[label] ELSE 0

\* what compare_databases can read, lines 47-59
Observations ==
  [ source_nodes : 0..MaxCount, target_nodes : 0..MaxCount,
    source_rels : 0..MaxCount, target_rels : 0..MaxCount,
    source_labels : LabelCounts, target_labels : LabelCounts ]

\* a compare_databases that compares the label dictionaries whole
compare_databases_all_labels(o) ==
  /\ o.source_nodes = o.target_nodes
  /\ o.source_rels = o.target_rels
  /\ o.source_labels = o.target_labels

\* compare_databases, lines 44-144: the value returned for what was read
compare_databases(o) ==
  LET nodes_match == o.source_nodes = o.target_nodes
      rels_match == o.source_rels = o.target_rels
      all_labels == DOMAIN o.source_labels \cup DOMAIN o.target_labels
      all_match ==
        \A label \in all_labels :
          label = "SourceEvent" \/ Get(o.source_labels, label) = Get(o.target_labels, label)
  IN nodes_match /\ rels_match /\ all_match

\* main(), line 159: all([source_uri, source_password, target_uri, target_password])
VfCredentialsSet(e) ==
  /\ e.MASTER_NEO4J_URI # ""
  /\ e.MASTER_NEO4J_PASSWORD # ""
  /\ e.SUBSCRIBER_NEO4J_URI # ""
  /\ e.SUBSCRIBER_NEO4J_PASSWORD # ""

VfInit ==
  /\ MoreParked
  /\ vfEnv \in LiveEnvValues
  /\ vfPc = "start"
  /\ vfExit = -1
  /\ vfObs = NoObs
  /\ vfMatched = FALSE
  /\ DeployParked
  /\ HbParked
  /\ LiveParked
  /\ DbParked
  /\ WuParked
  /\ WfcParked
  /\ BulkParked

\* main(), lines 159-167
VfValidate ==
  /\ vfPc = "start"
  /\ IF VfCredentialsSet(vfEnv)
     THEN vfPc' = "test_source" /\ UNCHANGED vfExit
     ELSE vfPc' = "done" /\ vfExit' = 1
  /\ UNCHANGED << vfEnv, vfObs, vfMatched >>

\* main(), lines 174-185: the clients are built, then test_connection() on
\* the source and on the target; False, or an exception: sys.exit(1)
VfTestConnection ==
  /\ vfPc \in {"test_source", "test_target"}
  /\ \E ok \in BOOLEAN :
       IF ok
       THEN /\ vfPc' = IF vfPc = "test_source" THEN "test_target" ELSE "compare"
            /\ UNCHANGED vfExit
       ELSE vfPc' = "done" /\ vfExit' = 1
  /\ UNCHANGED << vfEnv, vfObs, vfMatched >>

\* main(), line 190: success = compare_databases(source, target); an
\* exception of one of its reads: sys.exit(1), lines 195-197
VfCompare ==
  /\ vfPc = "compare"
  /\ \/ \E o \in Observations :
          /\ vfObs' = o
          /\ vfMatched' = compare_databases(o)
          /\ vfPc' = "exit"
          /\ UNCHANGED vfExit
     \/ /\ vfPc' = "done"
        /\ vfExit' = 1
        /\ UNCHANGED << vfObs, vfMatched >>
  /\ UNCHANGED vfEnv

\* an exit status that does not look at the result
ExitStatusZero(success) == 0

\* main(), line 193: 0 if success else 1
ExitStatus(success) == IF success THEN 0 ELSE 1

\* main(), line 193: sys.exit(0 if success else 1)
VfExit ==
  /\ vfPc = "exit"
  /\ vfPc' = "done"
  /\ vfExit' = ExitStatus(vfMatched)
  /\ UNCHANGED << vfEnv, vfObs, vfMatched >>

notVf == << deployVars, hbVars, liveVars, dbVars, wuVars, wfcVars, bulkVars, moreVars >>

VfNext ==
  \/ VfValidate /\ UNCHANGED notVf
  \/ VfTestConnection /\ UNCHANGED notVf
  \/ VfCompare /\ UNCHANGED notVf
  \/ VfExit /\ UNCHANGED notVf

VfSpec == VfInit /\ [][VfNext]_vars

(***************************************************************************)
(* Part V: the bulk test, python/test_bulk_cdc.py.  Time is counted in     *)
(* poll intervals of wait_for_propagation (ten seconds).                   *)
(***************************************************************************)
\* what get_node_count and get_relationship_count can return during the test
NodeCounts == (EXPECTED_NODES - MaxMissing)..(EXPECTED_NODES + MaxExtra)
RelCounts == (EXPECTED_RELS - MaxMissingRels)..EXPECTED_RELS

\* how long the four reads of check_counts can take together
BulkReadTimes == {0, MaxBulkRead}

\* PROPAGATION_TIMEOUT in poll intervals
BulkTimeout == PROPAGATION_TIMEOUT \div poll_interval

CountsRead ==
  [ source_nodes : NodeCounts, target_nodes : NodeCounts,
    source_rels : RelCounts, target_rels : RelCounts ]

\* check_counts, lines 109-114: all_match
check_counts(c) ==
  /\ c.source_nodes = EXPECTED_NODES
  /\ c.source_rels = EXPECTED_RELS
  /\ c.target_nodes = EXPECTED_NODES
  /\ c.target_rels = EXPECTED_RELS

\* wait_for_propagation, lines 139-146, one iteration: `waited` is the elapsed
\* time taken before check_counts ran
PropagationVerdict(success, waited) ==
  IF success THEN "return_true"
  ELSE IF waited >= BulkTimeout THEN "return_false"
  ELSE "sleep"

\* a failure report with the differences taken the other way round
FailureReportSwapped(c) ==
  [ printed |-> TRUE,
    source_off |-> (c.source_nodes # EXPECTED_NODES \/ c.source_rels # EXPECTED_RELS),
    nodes |-> IF c.target_nodes # c.source_nodes
              THEN {c.target_nodes - c.source_nodes} ELSE {},
    rels |-> IF c.target_rels # c.source_rels
             THEN {c.target_rels - c.source_rels} ELSE {} ]

\* main(), lines 243-252: the lines of the failure report: the warning about
\* the source, "Missing {delta} nodes on target", "Missing {delta}
\* relationships on target"
FailureReport(c) ==
  [ printed |-> TRUE,
    source_off |-> (c.source_nodes # EXPECTED_NODES \/ c.source_rels # EXPECTED_RELS),
    nodes |-> IF c.target_nodes # c.source_nodes
              THEN {c.source_nodes - c.target_nodes} ELSE {},
    rels |-> IF c.target_rels # c.source_rels
             THEN {c.source_rels - c.target_rels} ELSE {} ]

\* main(), line 172: missing = [v for v in required_vars if not os.getenv(v)]
BulkMissing(e) == { v \in DOMAIN e : e[v] = "" }

BulkInit ==
  /\ MoreParked
  /\ bulkEnv \in LiveEnvValues
  /\ bulkPc = "start"
  /\ bulkExit = -1
  /\ bulkClients = {}
  /\ bulkNow = 0
  /\ bulkCounts = NoCounts
  /\ bulkRet = NoWait
  /\ bulkReport = NoReport
  /\ bulkConverged = FALSE
  /\ srcPerson \in {"", UpdatedName}
  /\ tgtPerson \in {"", CreatedName}
  /\ srcMarker = ""
  /\ tgtMarker = ""
  /\ pipe = << >>
  /\ WuParked
  /\ DeployParked
  /\ HbParked
  /\ LiveParked
  /\ WfcParked
  /\ VfParked

bulkKept == << bulkNow, bulkCounts, bulkRet, bulkReport, bulkConverged >>

\* main(), lines 165-183
BulkValidate ==
  /\ bulkPc = "start"
  /\ IF BulkMissing(bulkEnv) = {}
     THEN bulkPc' = "connect" /\ UNCHANGED bulkExit
     ELSE bulkPc' = "done" /\ bulkExit' = 1
  /\ UNCHANGED << bulkEnv, bulkClients, bulkKept, dbVars, wuVars >>

\* main(), lines 186-200: construct both clients; any exception: return 1
BulkConnect ==
  /\ bulkPc = "connect"
  /\ bulkClients' = ClientsCreated(bulkEnv)
  /\ IF bulkClients' = {"source", "target"}
     THEN bulkPc' = "clear" /\ UNCHANGED bulkExit
     ELSE bulkPc' = "done" /\ bulkExit' = 1
  /\ UNCHANGED << bulkEnv, bulkKept, dbVars, wuVars >>

\* clear_databases, lines 38-51: MATCH (n) DETACH DELETE n on the source and
\* on the target; an exception leaves main() through the finally clause
BulkClear ==
  /\ bulkPc = "clear"
  /\ \E o \in QueryOutcomes(bulkEnv.MASTER_NEO4J_PASSWORD) :
       IF o = "ok"
       THEN /\ bulkPc' = "warm_up"
            /\ srcPerson' = ""
            /\ tgtPerson' = ""
            /\ UNCHANGED bulkExit
       ELSE /\ bulkPc' = "finally"
            /\ bulkExit' = 1
            /\ UNCHANGED << srcPerson, tgtPerson >>
  /\ UNCHANGED << bulkEnv, bulkClients, bulkKept, srcMarker, tgtMarker, pipe, wuVars >>

\* main(), lines 209-211: warm_up_pipeline has returned, or raised; its
\* frame is gone
BulkWarmUpReturn ==
  /\ bulkPc = "warm_up"
  /\ wuPc \in {"returned", "raised"}
  /\ IF wuPc = "returned" /\ wuSuccess
     THEN bulkPc' = "generate" /\ UNCHANGED bulkExit
     ELSE bulkPc' = "finally" /\ bulkExit' = 1
  /\ wuPc' = "idle"
  /\ wuNow' = 0
  /\ wuSuccess' = FALSE
  /\ wuSeen' = FALSE
  /\ wuDeleteIssued' = FALSE
  /\ wuElapsed' = 0
  /\ UNCHANGED << bulkEnv, bulkClients, bulkKept, dbVars >>

\* main(), lines 215-217, run_social_network_generator, lines 54-90: True,
\* or False for a failed or timed-out subprocess
BulkGenerate ==
  /\ bulkPc = "generate"
  /\ \E ok \in BOOLEAN :
       IF ok
       THEN bulkPc' = "wait" /\ UNCHANGED bulkExit
       ELSE bulkPc' = "finally" /\ bulkExit' = 1
  /\ bulkNow' = 0
  /\ UNCHANGED << bulkEnv, bulkClients, bulkCounts, bulkRet, bulkReport, bulkConverged,
                  dbVars, wuVars >>

\* wait_for_propagation, lines 137-155, one iteration of its loop: elapsed =
\* time.time() - start; check_counts(); return or sleep.  An exception of a
\* read leaves main() through the finally clause
BulkPoll ==
  /\ bulkPc = "wait"
  /\ \/ \E c \in CountsRead, same \in BOOLEAN, d \in BulkReadTimes :
          LET v == PropagationVerdict(check_counts(c), bulkNow) IN
          /\ bulkConverged' =
               (bulkConverged \/ (/\ c.source_nodes = c.target_nodes
                                  /\ c.source_rels = c.target_rels
                                  /\ same))
          /\ IF v = "sleep"
             THEN /\ bulkNow' = bulkNow + d + 1
                  /\ UNCHANGED << bulkPc, bulkRet, bulkCounts >>
             ELSE /\ bulkNow' = bulkNow + d
                  /\ bulkCounts' = c
                  /\ bulkRet' = [ returned |-> TRUE, success |-> v = "return_true",
                                  elapsed |-> bulkNow ]
                  /\ bulkPc' = "outcome"
          /\ UNCHANGED bulkExit
     \/ /\ bulkPc' = "finally"
        /\ bulkExit' = 1
        /\ UNCHANGED << bulkNow, bulkCounts, bulkRet, bulkConverged >>
  /\ UNCHANGED << bulkEnv, bulkClients, bulkReport, dbVars, wuVars >>

\* main(), lines 223-260: return 0 on success; else the failure report and
\* return 1
BulkOutcome ==
  /\ bulkPc = "outcome"
  /\ bulkPc' = "finally"
  /\ IF bulkRet.success
     THEN bulkExit' = 0 /\ UNCHANGED bulkReport
     ELSE bulkExit' = 1 /\ bulkReport' = FailureReport(bulkCounts)
  /\ UNCHANGED << bulkEnv, bulkClients, bulkNow, bulkCounts, bulkRet, bulkConverged,
                  dbVars, wuVars >>

\* main(), lines 262-264: finally: source.close(); target.close(); an
\* exception of a close ends the process with status 1
BulkFinally ==
  /\ bulkPc = "finally"
  /\ bulkPc' = "done"
  /\ \E closed \in {{"source", "target"}, {"source"}, {}} :
       /\ bulkClients' = bulkClients \ closed
       /\ bulkExit' = IF closed = {"source", "target"} THEN bulkExit ELSE 1
  /\ UNCHANGED << bulkEnv, bulkKept, dbVars, wuVars >>

notBulk == << deployVars, hbVars, liveVars, wfcVars, vfVars, moreVars >>

BulkNext ==
  \/ BulkValidate /\ UNCHANGED notBulk
  \/ BulkConnect /\ UNCHANGED notBulk
  \/ BulkClear /\ UNCHANGED notBulk
  \/ BulkWarmUpReturn /\ UNCHANGED notBulk
  \/ BulkGenerate /\ UNCHANGED notBulk
  \/ BulkPoll /\ UNCHANGED notBulk
  \/ BulkOutcome /\ UNCHANGED notBulk
  \/ BulkFinally /\ UNCHANGED notBulk
  \/ WarmUpCreate /\ UNCHANGED << notBulk, bulkVars >>
  \/ WarmUpPoll /\ UNCHANGED << notBulk, bulkVars >>
  \/ WarmUpDelete /\ UNCHANGED << notBulk, bulkVars >>
  \/ Replicate /\ UNCHANGED << deployVars, hbVars, wfcVars, vfVars, bulkVars, moreVars >>

BulkSpec == BulkInit /\ [][BulkNext]_vars

(***************************************************************************)
(* Part VI: the reads of one convergence check, each a query of its own    *)
(* (Neo4jClient.get_node_count, get_relationship_count, get_label_counts), *)
(* while writers and the replication change the endpoints.                 *)
(***************************************************************************)
Endpoints == {"source", "target"}

\* the graphs of the model: Person nodes and relationships between them
Graphs == [ persons : 0..(MaxGraph + MaxWrites), rels : 0..(MaxGraph + MaxWrites) ]

\* MATCH (n) RETURN count(n)
get_node_count(g) == g.persons

\* MATCH ()-[r]->() RETURN count(r)
get_relationship_count(g) == g.rels

get_label_counts_every_label(g) == [ label \in {"Person"} |-> g.persons ]

\* MATCH (n) UNWIND labels(n) AS label RETURN label, count(*): a label no
\* node carries is not returned
get_label_counts(g) ==
  [ label \in (IF g.persons > 0 THEN {"Person"} ELSE {}) |-> g.persons ]

ReadOf(kind, g) ==
  CASE kind = "nodes" -> get_node_count(g)
    [] kind = "rels" -> get_relationship_count(g)
    [] kind = "labels" -> get_label_counts(g)

\* compare_databases, lines 47-59: the order of its six reads
ComparePlan ==
  << << "source", "nodes" >>, << "target", "nodes" >>,
     << "source", "rels" >>, << "target", "rels" >>,
     << "source", "labels" >>, << "target", "labels" >> >>

\* check_counts, lines 100-103: the order of its four reads
CountsPlan ==
  << << "source", "nodes" >>, << "source", "rels" >>,
     << "target", "nodes" >>, << "target", "rels" >> >>

\* what a writer, or the replication, can make of a graph in one transaction
WritesOf(g) ==
  {[ g EXCEPT !.persons = g.persons + 1 ]}
    \cup (IF g.persons > 0 THEN {[ g EXCEPT !.rels = g.rels + 1 ]} ELSE {})
    \cup {NoGraph}

SnapInit ==
  /\ snapPlan \in {ComparePlan, CountsPlan}
  /\ snapPos = 1
  /\ snapDb \in [ Endpoints -> [ persons : 0..MaxGraph, rels : 0..MaxGraph ] ]
  /\ \A e \in Endpoints : snapDb[e].persons = 0 => snapDb[e].rels = 0
  /\ snapObs = << >>
  /\ snapWrites = 0
  /\ snapSeen = [ e \in Endpoints |-> {snapDb[e]} ]
  /\ DeployParked
  /\ HbParked
  /\ LiveParked
  /\ DbParked
  /\ WuParked
  /\ WfcParked
  /\ VfParked
  /\ BulkParked
  /\ CdcParked
  /\ GenParked
  /\ TokParked

\* the next read of the check: one query, one round trip, answered from the
\* graph the endpoint holds at that moment
SnapRead ==
  /\ snapPos \in 1..Len(snapPlan)
  /\ LET e == snapPlan[snapPos][1]
         kind == snapPlan[snapPos][2]
     IN snapObs' = snapObs @@ (snapPlan[snapPos] :> ReadOf(kind, snapDb[e]))
  /\ snapPos' = snapPos + 1
  /\ UNCHANGED << snapPlan, snapDb, snapWrites, snapSeen >>

\* a writer commits to the source, or the replication to the target, between
\* two reads of the check
SnapWrite ==
  /\ snapPos \in 1..Len(snapPlan)
  /\ snapWrites < MaxWrites
  /\ \E e \in Endpoints : \E g \in WritesOf(snapDb[e]) :
       /\ g # snapDb[e]
       /\ snapDb' = [ snapDb EXCEPT ![e] = g ]
       /\ snapSeen' = [ snapSeen EXCEPT ![e] = @ \cup {g} ]
  /\ snapWrites' = snapWrites + 1
  /\ UNCHANGED << snapPlan, snapPos, snapObs >>

notSnap ==
  << deployVars, hbVars, liveVars, dbVars, wuVars, wfcVars, vfVars, bulkVars, cdcVars,
     genVars, tokVars >>

SnapNext ==
  \/ SnapRead /\ UNCHANGED notSnap
  \/ SnapWrite /\ UNCHANGED notSnap

SnapSpec == SnapInit /\ [][SnapNext]_vars

(***************************************************************************)
(* Part VII: wait_for_cdc_ready, the readiness check of the change capture *)
(* of the source (utils/cdc_utils.py), called by verify_cdc_ready.py.      *)
(***************************************************************************)
\* what one call of client.execute_read("CALL db.cdc.current()") does: it
\* returns records, returns no record, raises an error whose text has one of
\* 'procedure', 'not found', 'no procedure', 'cdc', or raises another error
CdcOutcomes == {"records", "empty", "not_ready", "other"}

\* lines 24-47: what attempt i does with the outcome of its call
CdcAttemptVerdict(o, i, timeout_seconds) ==
  CASE o = "records" -> "return_true"
    [] o = "empty" -> "next"
    [] o = "not_ready" -> IF i = timeout_seconds - 1 THEN "raise_not_ready" ELSE "sleep"
    [] o = "other" -> "raise_unexpected"

CdcInit ==
  /\ cdcPc = "loop"
  /\ cdcTimeout \in 0..MaxCdcTimeout
  /\ cdcI = 0
  /\ cdcRet = "none"
  /\ cdcSlept = 0
  /\ cdcLast = "none"
  /\ DeployParked
  /\ HbParked
  /\ LiveParked
  /\ DbParked
  /\ WuParked
  /\ WfcParked
  /\ VfParked
  /\ BulkParked
  /\ SnapParked
  /\ GenParked
  /\ TokParked

\* lines 23-47: one iteration of for i in range(timeout_seconds)
CdcAttempt ==
  /\ cdcPc = "loop"
  /\ cdcI < cdcTimeout
  /\ \E o \in CdcOutcomes :
       LET v == CdcAttemptVerdict(o, cdcI, cdcTimeout) IN
       /\ cdcLast' = o
       /\ cdcI' = cdcI + 1
       /\ CASE v = "return_true" ->
                 cdcPc' = "returned" /\ cdcRet' = "True" /\ UNCHANGED cdcSlept
            [] v = "next" -> UNCHANGED << cdcPc, cdcRet, cdcSlept >>
            [] v = "sleep" -> cdcSlept' = cdcSlept + 1 /\ UNCHANGED << cdcPc, cdcRet >>
            [] OTHER -> cdcPc' = "raised" /\ cdcRet' = v /\ UNCHANGED cdcSlept
  /\ UNCHANGED cdcTimeout

\* line 49: the loop has run out of attempts
CdcExhausted ==
  /\ cdcPc = "loop"
  /\ cdcI >= cdcTimeout
  /\ cdcPc' = "raised"
  /\ cdcRet' = "raise_timed_out"
  /\ UNCHANGED << cdcTimeout, cdcI, cdcSlept, cdcLast >>

notCdc ==
  << deployVars, hbVars, liveVars, dbVars, wuVars, wfcVars, vfVars, bulkVars, snapVars,
     genVars, tokVars >>

CdcNext ==
  \/ CdcAttempt /\ UNCHANGED notCdc
  \/ CdcExhausted /\ UNCHANGED notCdc

CdcSpec == CdcInit /\ [][CdcNext]_vars

(***************************************************************************)
(* Part VIII: the demo generator, generators/social_network.py: it clears  *)
(* the source and writes companies, people and their relationships, each   *)
(* with one statement.                                                      *)
(***************************************************************************)
\* the graphs the source can hold when the generator is started
LeftoverGraphs ==
  { [ companies |-> cs, persons |-> ps,
      worksAt |-> IF linked THEN ps \X cs ELSE {},
      knows |-> IF linked THEN { pr \in ps \X ps : pr[1] < pr[2] } ELSE {} ] :
      cs \in SUBSET (1..MaxLeftover),
      ps \in SUBSET ((1..MaxLeftover) \cup ((NumPeople + 1)..(NumPeople + MaxLeftover))),
      linked \in BOOLEAN }

\* MATCH (n) DETACH DELETE n
clear_database(g) == EmptyGraph

\* UNWIND range(1, 10) AS id CREATE (c:Company {id: id, ...})
CreateCompanies(g) == [ g EXCEPT !.companies = @ \cup (1..NumCompanies) ]

\* UNWIND range(1, 100) AS id CREATE (p:Person {id: id, ...})
CreatePeople(g) == [ g EXCEPT !.persons = @ \cup (1..NumPeople) ]

\* UNWIND range(1, 100) AS id MATCH (p:Person {id: id}), (c:Company {id: (id % 10) + 1})
\* CREATE (p)-[:WORKS_AT]->(c)
CreateWorksAt(g) ==
  [ g EXCEPT !.worksAt =
      @ \cup { << id, (id % 10) + 1 >> :
                 id \in { i \in 1..NumPeople : i \in g.persons /\ (i % 10) + 1 \in g.companies } } ]

\* a KNOWS statement without the condition on p1.id
CreateKnowsEveryPair(g) ==
  [ g EXCEPT !.knows =
      @ \cup { pr \in g.persons \X g.persons : pr[1] < pr[2] /\ pr[1] % 10 = pr[2] % 10 } ]

\* MATCH (p1:Person), (p2:Person)
\* WHERE p1.id < p2.id AND p1.id % 10 = p2.id % 10 AND p1.id < 50
\* CREATE (p1)-[:KNOWS]->(p2)
CreateKnows(g) ==
  [ g EXCEPT !.knows =
      @ \cup { pr \in g.persons \X g.persons :
                 pr[1] < pr[2] /\ pr[1] % 10 = pr[2] % 10 /\ pr[1] < KnowsBelow } ]

\* CREATE under the uniqueness constraints person_id, company_id: a node
\* with one of the ids is there already
IdTaken(step, g) ==
  CASE step = "companies" -> g.companies \cap (1..NumCompanies) # {}
    [] step = "people" -> g.persons \cap (1..NumPeople) # {}
    [] OTHER -> FALSE

GenSteps == << "clear", "constraints", "companies", "people", "works_at", "knows", "stats" >>

GenAfter(step) ==
  IF step = "stats" THEN "done"
  ELSE GenSteps[(CHOOSE i \in 1..Len(GenSteps) : GenSteps[i] = step) + 1]

\* what the statement of a step makes of the graph
GenApply(step, g) ==
  CASE step = "clear" -> clear_database(g)
    [] step = "companies" -> CreateCompanies(g)
    [] step = "people" -> CreatePeople(g)
    [] step = "works_at" -> CreateWorksAt(g)
    [] step = "knows" -> CreateKnows(g)
    [] OTHER -> g

GenInit ==
  /\ genPc = "clear"
  /\ genExit = -1
  /\ genGraph \in LeftoverGraphs
  /\ genStats = [ nodes |-> 0, rels |-> 0 ]
  /\ DeployParked
  /\ HbParked
  /\ LiveParked
  /\ DbParked
  /\ WuParked
  /\ WfcParked
  /\ VfParked
  /\ BulkParked
  /\ SnapParked
  /\ CdcParked
  /\ TokParked

\* main(), lines 57-134: one execute_write (the two constraint statements
\* write nothing to the graph); a statement that raises ends the process
\* with a traceback
GenWrite ==
  /\ genPc \in {"clear", "constraints", "companies", "people", "works_at", "knows"}
  /\ \E ok \in BOOLEAN :
       IF ok /\ ~IdTaken(genPc, genGraph)
       THEN /\ genGraph' = GenApply(genPc, genGraph)
            /\ genPc' = GenAfter(genPc)
            /\ UNCHANGED genExit
       ELSE /\ genPc' = "done"
            /\ genExit' = 1
            /\ UNCHANGED genGraph
  /\ UNCHANGED genStats

\* main(), lines 136-155: the counts of the summary table
GenStatistics ==
  /\ genPc = "stats"
  /\ \E ok \in BOOLEAN :
       IF ok
       THEN /\ genStats' =
                 [ nodes |-> Cardinality(genGraph.companies) + Cardinality(genGraph.persons),
                   rels |-> Cardinality(genGraph.worksAt) + Cardinality(genGraph.knows) ]
            /\ genExit' = 0
       ELSE genExit' = 1 /\ UNCHANGED genStats
  /\ genPc' = "done"
  /\ UNCHANGED genGraph

notGen ==
  << deployVars, hbVars, liveVars, dbVars, wuVars, wfcVars, vfVars, bulkVars, snapVars,
     cdcVars, tokVars >>

GenNext ==
  \/ GenWrite /\ UNCHANGED notGen
  \/ GenStatistics /\ UNCHANGED notGen

GenSpec == GenInit /\ [][GenNext]_vars

(***************************************************************************)
(* Part IX: the token helper, terraform/scripts/get_aura_token.py: it      *)
(* prints an OAuth token, taken from a cache file or requested afresh.     *)
(***************************************************************************)
\* time.time() when the helper runs
TokStart == TOKEN_LIFETIME + MaxAgeSkew

\* how old the timestamp of a cache file is
CacheAges == {0} \cup ((TOKEN_LIFETIME - MaxAgeSkew)..(TOKEN_LIFETIME + MaxAgeSkew))

\* what CACHE_FILE can hold: no file; a file that cannot be opened; text
\* that is not JSON; JSON that is not an object; an object whose 'timestamp'
\* is a number, is missing or is not a number, and whose 'token' is a
\* string, the empty string or missing
CacheFiles ==
  { [ kind |-> k, tsKind |-> "missing", ts |-> 0, token |-> "" ] :
      k \in {"absent", "unreadable", "not_json", "not_object"} }
  \cup { [ kind |-> "object", tsKind |-> tk, ts |-> 0, token |-> t ] :
           tk \in {"missing", "text"}, t \in {"old", "", "missing"} }
  \cup { [ kind |-> "object", tsKind |-> "number", ts |-> TokStart - a, token |-> t ] :
           a \in CacheAges, t \in {"old", "", "missing"} }

\* get_cached_token, lines 37-52: None, the cached token, or an exception
\* that the except clause (json.JSONDecodeError, KeyError, IOError) does not
\* catch
get_cached_token(c, now) ==
  CASE c.kind = "absent" -> [ kind |-> "none", token |-> "" ]
    [] c.kind \in {"unreadable", "not_json"} -> [ kind |-> "none", token |-> "" ]
    [] c.kind = "not_object" -> [ kind |-> "raise", token |-> "" ]
    [] c.tsKind = "missing" -> [ kind |-> "none", token |-> "" ]
    [] c.tsKind = "text" -> [ kind |-> "raise", token |-> "" ]
    [] OTHER ->
         IF now - c.ts < TOKEN_LIFETIME
         THEN IF c.token = "missing" THEN [ kind |-> "none", token |-> "" ]
              ELSE [ kind |-> "token", token |-> c.token ]
         ELSE [ kind |-> "none", token |-> "" ]

\* what the POST to the token endpoint does: 200 with an access_token, 200
\* without one, another status, an exception of requests
TokenResponses == {"200_token", "200_no_token", "401", "exception"}

\* cache_token, lines 55-62: the file written
CachedEntry(token, now) ==
  [ kind |-> "object", tsKind |-> "number", ts |-> now, token |-> token ]

TokInit ==
  /\ tokPc = "validate"
  /\ tokExit = -1
  /\ tokEnv \in [ id : BOOLEAN, secret : BOOLEAN ]
  /\ tokCache \in CacheFiles
  /\ tokNow = TokStart
  /\ tokToken = ""
  /\ tokOut = ""
  /\ tokCache0 = tokCache
  /\ tokResp = "none"
  /\ tokStored = FALSE
  /\ DeployParked
  /\ HbParked
  /\ LiveParked
  /\ DbParked
  /\ WuParked
  /\ WfcParked
  /\ VfParked
  /\ BulkParked
  /\ SnapParked
  /\ CdcParked
  /\ GenParked

\* main(), lines 68-73
TokValidate ==
  /\ tokPc = "validate"
  /\ IF tokEnv.id /\ tokEnv.secret
     THEN tokPc' = "cached" /\ UNCHANGED tokExit
     ELSE tokPc' = "done" /\ tokExit' = 1
  /\ UNCHANGED << tokEnv, tokCache, tokNow, tokToken, tokOut, tokCache0, tokResp,
                  tokStored >>

\* main(), lines 76-78: token = get_cached_token(); if not token
TokCached ==
  /\ tokPc = "cached"
  /\ LET r == get_cached_token(tokCache, tokNow) IN
     CASE r.kind = "raise" ->
            tokPc' = "done" /\ tokExit' = 1 /\ UNCHANGED tokToken
       [] r.kind = "token" /\ r.token # "" ->
            tokPc' = "print" /\ tokToken' = r.token /\ UNCHANGED tokExit
       [] OTHER ->
            tokPc' = "fresh" /\ UNCHANGED << tokToken, tokExit >>
  /\ UNCHANGED << tokEnv, tokCache, tokNow, tokOut, tokCache0, tokResp, tokStored >>

\* main(), line 80, get_fresh_token, lines 16-34
TokFresh ==
  /\ tokPc = "fresh"
  /\ \E resp \in TokenResponses :
       /\ tokResp' = resp
       /\ IF resp = "200_token"
          THEN tokPc' = "store" /\ tokToken' = "new" /\ UNCHANGED tokExit
          ELSE tokPc' = "done" /\ tokExit' = 1 /\ UNCHANGED tokToken
  /\ UNCHANGED << tokEnv, tokCache, tokNow, tokOut, tokCache0, tokStored >>

\* main(), line 81, cache_token, lines 55-62: the write can fail
TokStore ==
  /\ tokPc = "store"
  /\ \E ok \in BOOLEAN :
       IF ok
       THEN /\ tokCache' = CachedEntry(tokToken, tokNow)
            /\ tokStored' = TRUE
            /\ tokPc' = "print"
            /\ UNCHANGED tokExit
       ELSE /\ tokPc' = "done"
            /\ tokExit' = 1
            /\ UNCHANGED << tokCache, tokStored >>
  /\ UNCHANGED << tokEnv, tokNow, tokToken, tokOut, tokCache0, tokResp >>

\* main(), line 84
TokPrint ==
  /\ tokPc = "print"
  /\ tokOut' = tokToken
  /\ tokPc' = "done"
  /\ tokExit' = 0
  /\ UNCHANGED << tokEnv, tokCache, tokNow, tokToken, tokCache0, tokResp, tokStored >>

notTok ==
  << deployVars, hbVars, liveVars, dbVars, wuVars, wfcVars, vfVars, bulkVars, snapVars,
     cdcVars, genVars >>

TokNext ==
  \/ TokValidate /\ UNCHANGED notTok
  \/ TokCached /\ UNCHANGED notTok
  \/ TokFresh /\ UNCHANGED notTok
  \/ TokStore /\ UNCHANGED notTok
  \/ TokPrint /\ UNCHANGED notTok

TokSpec == TokInit /\ [][TokNext]_vars

(***************************************************************************)
(* The deployment script and the three verifiers, one of them running, each *)
(* step of the running program taken in the end: every call returns or     *)
(* times out.                                                              *)
(***************************************************************************)
AllInit == Init \/ LiveInit \/ BulkInit \/ VfInit

AllNext == Next \/ LiveNext \/ BulkNext \/ VfNext

AllSpec == AllInit /\ [][AllNext]_vars /\ WF_vars(AllNext)

(***************************************************************************)
(* Properties of the entry points.                                         *)
(***************************************************************************)
\* the variables the live test needs that are not set
LiveMissing ==
  { v \in {"MASTER_NEO4J_URI", "MASTER_NEO4J_PASSWORD", "SUBSCRIBER_NEO4J_URI",
           "SUBSCRIBER_NEO4J_PASSWORD"} : liveEnv[v] = "" }

\* the deployment script with a required variable unset: no request, no
\* partition check, exit 1 (Spec)
DeployValidatesFirst ==
  (pc # "off" /\ Missing(env) # {}) =>
     /\ lastEv = NoEv /\ ~guard.called /\ puts = << >>
     /\ pc # "start" => (pc = "done" /\ exitCode = 1)

\* the heartbeat agent with the URI or the password unset: no network call,
\* exit 1 (HbSpec)
HbValidatesFirst ==
  (hbPc # "off" /\ HbMissing(hbEnv)) =>
     /\ ~hbNet /\ srcSeq = 0
     /\ hbPc # "start" => (hbPc = "done" /\ hbExit = 1)

\* C17: when a required variable or credential is not set, the live test
\* ends with exit status 1 without having sent anything to a database.
C17_MissingEndsBeforeNetwork ==
  (livePc # "off" /\ LiveMissing # {}) =>
     /\ liveNet = {}
     /\ livePc # "start" => (livePc = "done" /\ liveExit = 1)

(***************************************************************************)
(* Properties of the polling functions of the live test.                   *)
(***************************************************************************)
\* C23: warm_up_pipeline ends: its loop's clock advances on every iteration
\* and stays bounded; it returns True exactly when a read of the target
\* returned the marker of this run (a failing read counts as not yet
\* arrived), returns False only with 180 seconds elapsed, and on both outcomes
\* has sent the delete of the marker to the source, going from the delete
\* straight to the return (LiveSpec).
C23_WarmUpReturnsAndCleans ==
  /\ [](wuPc = "returned" => ((wuSuccess <=> wuSeen) /\ wuDeleteIssued))
  /\ []((wuPc = "returned" /\ ~wuSuccess) =>
          wuElapsed >= WarmUpTimeoutSecs * PollsPerSecond)
  /\ [](wuPc = "poll" =>
          wuNow < (WarmUpTimeoutSecs + WarmUpSleepSecs) * PollsPerSecond + MaxReadTime)
  /\ [][(wuPc = "poll" /\ wuPc' = "poll" /\ wuVars' # wuVars) => wuNow' > wuNow]_vars
  /\ [][(wuPc = "delete" /\ wuPc' # "delete") => wuPc' \in {"returned", "raised"}]_vars

\* warm_up_pipeline returned True while the marker is still on the target
C23_Witness == wuPc = "returned" /\ wuSuccess /\ wuSeen /\ tgtMarker # "" /\ wuElapsed > 0

\* the latest call of check_fn in wait_for_condition on its own
WfcLast == wfcEvals[Len(wfcEvals)]

\* C24: wait_for_condition calls check_fn at least once, also with timeout
\* 0; it returns (True, elapsed) at the first call that yields true and
\* (False, elapsed) only after a call that yielded false with elapsed >=
\* timeout; it does not call check_fn after returning, and its clock advances
\* on every iteration and is bounded, so it returns (WfcSpec).
C24_WaitForCondition ==
  /\ [](wfcPc = "returned" =>
          /\ Len(wfcEvals) >= 1
          /\ wfcRet.elapsed = WfcLast.at
          /\ wfcRet.success = WfcLast.result
          /\ \A i \in 1..(Len(wfcEvals) - 1) : ~wfcEvals[i].result
          /\ ~wfcRet.success => wfcRet.elapsed >= wfcTimeout)
  /\ [](wfcPc = "loop" =>
          /\ \A i \in 1..Len(wfcEvals) : ~wfcEvals[i].result /\ wfcEvals[i].at < wfcTimeout
          /\ wfcNow < wfcTimeout + MaxReadTime + MaxPollInterval)
  /\ [][wfcPc = "returned" => wfcEvals' = wfcEvals]_vars
  /\ [][(wfcPc = "loop" /\ wfcPc' = "loop") => wfcNow' > wfcNow]_vars

\* called with timeout 0, check_fn was called once, yielded false, and the
\* function returned (False, 0)
C24_Witness ==
  /\ wfcPc = "returned" /\ wfcTimeout = 0
  /\ Len(wfcEvals) = 1 /\ ~wfcRet.success /\ wfcRet.elapsed = 0

\* the poll of Test 1 (CREATE) has returned
CreatePolled == liveTest = "create" /\ livePc = "after" /\ liveWait.returned

LongestCreatePoll == TimeoutOf("create") + MaxReadTime + 1

CountOf(d, label) == IF label \in DOMAIN d THEN d[label] ELSE 0

\* compare_databases has returned
Compared == vfPc \in {"exit", "done"} /\ vfObs # NoObs

\* C26: compare_databases reports a match exactly when the node counts are
\* equal, the relationship counts are equal and every label other than
\* SourceEvent has the same count on both sides, a label missing on one side
\* counting 0 there; the SourceEvent counts have no part in it (VfSpec).
C26_MatchedIffCountsAgree ==
  Compared =>
    (vfMatched <=>
       /\ vfObs.source_nodes = vfObs.target_nodes
       /\ vfObs.source_rels = vfObs.target_rels
       /\ \A label \in Labels \ {"SourceEvent"} :
            CountOf(vfObs.source_labels, label) = CountOf(vfObs.target_labels, label))

\* a match reported with SourceEvent nodes on the target only
C26_Witness ==
  /\ Compared /\ vfMatched
  /\ CountOf(vfObs.source_labels, "SourceEvent") = 0
  /\ CountOf(vfObs.target_labels, "SourceEvent") > 0
  /\ CountOf(vfObs.source_labels, "Person") > 0

\* C27: wait_for_propagation reports success exactly when one of its polls
\* found source and target converged: equal node counts, equal relationship
\* counts, equal per-label counts other than the source-tracking label; it
\* reports failure only with the deadline of 180 seconds passed (BulkSpec).
C27_SuccessIffConverged ==
  bulkRet.returned =>
    /\ bulkRet.success <=> bulkConverged
    /\ ~bulkRet.success => bulkRet.elapsed >= BulkTimeout

\* C28: after a timeout the failure report names, for the node count and for
\* the relationship count each on its own, the difference source minus
\* target when the two counts differ, and nothing when they are equal; for
\* 110 nodes and 445 relationships on the source and 108 and 445 on the
\* target the run has failed and the report is "missing 2 nodes on target"
\* with nothing about relationships (BulkSpec).
C28_ReportSignedDifferences ==
  bulkReport.printed =>
    /\ ~bulkRet.success
    /\ bulkReport.nodes = {} <=> bulkCounts.source_nodes = bulkCounts.target_nodes
    /\ \A delta \in bulkReport.nodes : bulkCounts.target_nodes + delta = bulkCounts.source_nodes
    /\ bulkReport.rels = {} <=> bulkCounts.source_rels = bulkCounts.target_rels
    /\ \A delta \in bulkReport.rels : bulkCounts.target_rels + delta = bulkCounts.source_rels
    /\ bulkCounts = [ source_nodes |-> 110, target_nodes |-> 108,
                      source_rels |-> 445, target_rels |-> 445 ] =>
         (bulkReport.nodes = {2} /\ bulkReport.rels = {})

\* the report for 110 and 445 on the source, 108 and 445 on the target
C28_Witness ==
  /\ bulkReport.printed
  /\ bulkCounts = [ source_nodes |-> 110, target_nodes |-> 108,
                    source_rels |-> 445, target_rels |-> 445 ]
  /\ bulkReport.nodes = {2} /\ bulkReport.rels = {}

(***************************************************************************)
(* Properties of the deployment script and the verifiers together.         *)
(***************************************************************************)
\* no program is running any more, and the one that ran has an exit status
Ended ==
  /\ pc \in {"off", "done"} /\ (pc = "done" => exitCode \in {0, 1})
  /\ livePc \in {"off", "done"} /\ (livePc = "done" => liveExit \in {0, 1})
  /\ bulkPc \in {"off", "done"} /\ (bulkPc = "done" => bulkExit \in {0, 1})
  /\ vfPc \in {"off", "done"} /\ (vfPc = "done" => vfExit \in {0, 1})

\* with every enabled step taken in the end, the run ends (AllSpec)
RunsEnd == <>Ended

\* C29: each polling loop (the wait for the control plane, the verification
\* of a connector's status, the warm-up, the poll of a single event, the wait
\* for the bulk propagation) ends whatever the polled system answers: its
\* clock stays below its deadline plus one call and one sleep, and every
\* iteration advances it, and a program that has not ended with an exit
\* status has a step to take; so a run in which every call returns or times
\* out comes to an end with an exit status (AllSpec).
C29_EveryPollingLoopEnds ==
  /\ [](pc = "wait" => elapsed < WaitTimeout + ReqTimeout + SleepSecs)
  /\ [](pc \in VerifySteps => elapsed < VerifyTimeout + ReqTimeout + SleepSecs)
  /\ [](wuPc = "poll" =>
          wuNow < (WarmUpTimeoutSecs + WarmUpSleepSecs) * PollsPerSecond + MaxReadTime)
  /\ [](livePc = "wait" => liveNow < TimeoutOf(liveTest) + MaxReadTime + 1)
  /\ [](bulkPc = "wait" => bulkNow < BulkTimeout + MaxBulkRead + 1)
  /\ [][(pc \in VerifySteps \cup {"wait"} /\ pc' = pc /\ ~BrokerStep) =>
          elapsed' > elapsed]_vars
  /\ [][(wuPc = "poll" /\ wuPc' = "poll") => (wuNow' > wuNow \/ UNCHANGED wuVars)]_vars
  /\ [][(livePc = "wait" /\ livePc' = "wait") =>
          (liveNow' > liveNow \/ UNCHANGED << liveNow, liveEval, liveReadFailed >>)]_vars
  /\ [][(bulkPc = "wait" /\ bulkPc' = "wait") =>
          (bulkNow' > bulkNow \/ UNCHANGED << bulkNow, bulkConverged >>)]_vars
  /\ [](Ended \/ ENABLED AllNext)

\* the bulk test has ended after its wait ran to the deadline
C29_Witness ==
  /\ bulkPc = "done" /\ bulkExit = 1
  /\ bulkRet.returned /\ ~bulkRet.success /\ bulkRet.elapsed >= BulkTimeout

\* C30: each verifier (verify_cdc, test_bulk_cdc, test_live_cdc) ends with
\* status 0 or 1, and with 0 only when its verification succeeded:
\* compare_databases returned a match, wait_for_propagation returned success,
\* the polls of the three live tests returned success; verify_cdc ends with 1
\* whenever the comparison did not return a match (AllSpec).
C30_ExitZeroOnlyOnSuccess ==
  /\ vfPc = "done" =>
       /\ vfExit \in {0, 1}
       /\ vfExit = 0 <=> (vfObs # NoObs /\ vfMatched)
  /\ bulkPc = "done" =>
       /\ bulkExit \in {0, 1}
       /\ bulkExit = 0 => (bulkRet.returned /\ bulkRet.success /\ ~bulkReport.printed)
       /\ (~bulkRet.returned \/ ~bulkRet.success) => bulkExit = 1
  /\ livePc = "done" =>
       /\ liveExit \in {0, 1}
       /\ liveExit = 0 => livePassed = {"create", "update", "delete"}
       /\ livePassed # {"create", "update", "delete"} => liveExit = 1

\* verify_cdc has ended with status 1 after a comparison that found a mismatch
C30_Witness == vfPc = "done" /\ vfExit = 1 /\ vfObs # NoObs /\ ~vfMatched

(***************************************************************************)
(* Properties of the connector configurations, the snapshots, the agent    *)
(* beside the bulk test, the restart, the clients and the helpers.         *)
(***************************************************************************)
\* C31: for every source URI and password the publisher configuration sets
\* the partition count of the topics the connector creates to the count the
\* partition check expects, and the topic the check names is the topic the
\* publisher captures into and the consumer subscribes to; so it is for the
\* configurations the control plane holds after a deployment (Spec).
C31_SinglePartitionSameTopic ==
  /\ \A u \in {"", "neo4j+s://master"}, pw \in {"", "mpw"} :
       /\ build_source_config(u, pw).partitions = ExpectedPartitions
       /\ build_source_config(u, pw).cdc_topic = Topic
  /\ \A u \in {"", "neo4j+s://subscriber"}, pw \in {"", "spw"} :
       build_sink_config(u, pw).topics = Topic
  /\ Publisher \in DOMAIN connectors =>
       /\ connectors[Publisher].partitions = ExpectedPartitions
       /\ connectors[Publisher].cdc_topic = Topic
  /\ Consumer \in DOMAIN connectors => connectors[Consumer].topics = Topic

\* the partition check has read the topic's metadata and both configurations
\* are on the control plane
C31_Witness ==
  /\ guard.called /\ guard.outcome.kind = "metadata"
  /\ Publisher \in DOMAIN connectors /\ Consumer \in DOMAIN connectors
  /\ connectors[Publisher].partitions = 1

\* what one query of the given kind answers of graph g
Reading(kind, g) ==
  CASE kind = "nodes" -> g.persons
    [] kind = "rels" -> g.rels
    [] kind = "labels" -> IF g.persons = 0 THEN << >> ELSE [ l \in {"Person"} |-> g.persons ]

\* the reads made of endpoint e are those of graph g
SnapshotOf(e, g) ==
  \A i \in 1..Len(snapPlan) :
    snapPlan[i][1] = e => snapObs[snapPlan[i]] = Reading(snapPlan[i][2], g)

SnapshotsDone == snapPos > Len(snapPlan) /\ snapPos > 1

WithHeartbeatNode ==
  [ source_nodes |-> EXPECTED_NODES + 1, target_nodes |-> EXPECTED_NODES + 1,
    source_rels |-> EXPECTED_RELS, target_rels |-> EXPECTED_RELS ]

\* C33: a bulk run whose last poll read, on both sides, the generated graph
\* and the heartbeat node of the agent (source and target converged) reports
\* success (BulkSpec).
C33_HeartbeatNodeTolerated ==
  bulkRet.returned /\ bulkConverged /\ bulkCounts = WithHeartbeatNode => bulkRet.success

\* C34: a re-verification of the publisher that returned did not return on a
\* RUNNING status read while the accepted restart was still to be carried out
\* by the broker (Spec).
C34_ReverifyAfterRestart ==
  "reverify_pub" \in verified => ~staleReturn

\* C35: a run of the live test or of the bulk test that has ended, on any
\* exit path, has closed every endpoint client it opened (AllSpec).
C35_ClientsClosedAtExit ==
  /\ livePc = "done" => liveClients = {}
  /\ bulkPc = "done" => bulkClients = {}

\* C36: when the poll of the CREATE step has returned success, the create
\* written by this run is no longer on its way to the target: the entity the
\* poll read was put there by the replication of that create, not left by an
\* earlier run (LiveSpec).
C36_CreateSeenIsThisRuns ==
  CreatePolled /\ liveWait.success =>
    \A i \in DOMAIN pipe : pipe[i] # Event("person", CreatedName)

\* C37: wait_for_cdc_ready returns nothing but True, and does so at the
\* first attempt whose call yielded a record; it raises at once on an error
\* that is not one of the 'not ready' errors; its timeout errors are raised
\* after timeout_seconds attempts without success, with a wait of one second
\* after each unsuccessful attempt before the next one (CdcSpec).
C37_TrueOrRaiseAfterWaiting ==
  /\ cdcPc = "returned" => cdcRet = "True" /\ cdcLast = "records"
  /\ cdcLast = "records" => cdcPc = "returned"
  /\ cdcLast = "other" => cdcPc = "raised" /\ cdcRet = "raise_unexpected"
  /\ cdcRet \in {"raise_not_ready", "raise_timed_out"} =>
       /\ cdcI = cdcTimeout
       /\ cdcSlept >= cdcTimeout - 1

\* the KNOWS pairs as the specification lists them
KnowsPairs ==
  { pr \in (1..100) \X (1..100) : pr[1] < pr[2] /\ pr[1] % 10 = pr[2] % 10 /\ pr[1] < 50 }

\* C38: a run of the generator that ended with status 0 has left on the
\* source, whatever it held before, exactly 10 Company and 100 Person nodes,
\* 110 nodes in all, and exactly 100 WORKS_AT and 345 KNOWS relationships,
\* 445 in all, the KNOWS pairs being those with p1 < p2, p1 mod 10 = p2 mod
\* 10 and p1 < 50; these are the counts the bulk test expects (GenSpec).
C38_GeneratedCounts ==
  genPc = "done" /\ genExit = 0 =>
    /\ Cardinality(genGraph.companies) = 10
    /\ Cardinality(genGraph.persons) = 100
    /\ Cardinality(genGraph.worksAt) = 100
    /\ genGraph.knows = KnowsPairs
    /\ Cardinality(genGraph.knows) = 345
    /\ genStats = [ nodes |-> 110, rels |-> 445 ]
    /\ genStats = [ nodes |-> EXPECTED_NODES, rels |-> EXPECTED_RELS ]

C38_Witness ==
  /\ genPc = "done" /\ genExit = 0
  /\ genStats.rels = 445
  /\ << 49, 99 >> \in genGraph.knows

\* the cache file is there, is well-formed and its timestamp is less than
\* 24 hours old
FreshCache(c, now) ==
  /\ c.kind = "object"
  /\ c.tsKind = "number"
  /\ c.token \notin {"", "missing"}
  /\ now - c.ts < 24 * 60 * 60

\* C39: a run of the token helper with its credentials set that has ended
\* printed the cached token, with no request made and the cache file left as
\* it was, when the file was there, well-formed and less than 24 hours old;
\* in every other case it made a token request, and printed the fresh token
\* and left it in the cache with the current time when the request and the
\* write succeeded, or ended with status 1, nothing printed and the cache
\* file unchanged when the request failed (TokSpec).
C39_CachedOnlyIfFresh ==
  tokPc = "done" /\ tokEnv.id /\ tokEnv.secret =>
    IF FreshCache(tokCache0, tokNow)
    THEN tokOut = tokCache0.token /\ tokResp = "none" /\ tokCache = tokCache0
    ELSE /\ tokResp # "none"
         /\ tokResp = "200_token" /\ tokStored =>
              tokOut = "new" /\ tokCache = CachedEntry("new", tokNow)
         /\ tokResp # "200_token" =>
              tokExit = 1 /\ tokOut = "" /\ tokCache = tokCache0

====
